---- MODULE Spec2Model ----
(***************************************************************************)
(* Model of the GS308EP PoE switch controller: the command-line controller *)
(* GS308EP_CLI (GS308EP_CLI.cpp) and the embedded library GS308EP          *)
(* (GS308EP.cpp).  Texts (HTML pages, header blocks, cookie values) are    *)
(* sequences of one-character strings, so that the scanning functions are  *)
(* computed character by character as the code computes them.              *)
(***************************************************************************)
EXTENDS Integers, Sequences, FiniteSets, TLC

VARIABLES
    impl,     \* which controller class the object is: "cli" or "lib"
    ctl,      \* the controller object's fields
    pc,       \* position of the caller: "idle", or "cycle_sleep" inside cyclePort
    call,     \* the public call in progress or last returned, with its result
    reqs,     \* the HTTP requests issued by that call, in order
    applied,  \* the last port state a setPortState call reported as applied
    xin,      \* input of the scanning function under test (parser specification)
    xout      \* its results

vars == <<impl, ctl, pc, call, reqs, applied, xin, xout>>

----------------------------------------------------------------------------
(* Text primitives                                                          *)

\* std::string::find(pat, from) / Arduino String::indexOf(pat, from):
\* 0-based offset of the first occurrence of pat at or after from, -1 if none.
MatchAt(s, pat, i) == \A k \in 1 .. Len(pat) : s[i + k] = pat[k]

\* "let x = v in F(x)" with v computed once
Bind(v, F(_)) == CHOOSE y \in { F(x) : x \in {v} } : TRUE

Find(s, pat, from) ==
    IF from < 0 THEN -1 ELSE
    Bind({ i \in from .. (Len(s) - Len(pat)) : MatchAt(s, pat, i) }, LAMBDA hits :
      IF hits = { } THEN -1 ELSE CHOOSE i \in hits : \A j \in hits : i <= j)

\* std::string::substr(start, n) with 0-based start
Substr(s, start, n) == [ i \in 1 .. n |-> s[start + i] ]

\* Arduino String::substring(left, right) for 0 <= left <= right
Substring(s, left, right) ==
    LET r == IF right > Len(s) THEN Len(s) ELSE right
    IN  IF left >= Len(s) THEN << >> ELSE Substr(s, left, r - left)

DQ == << "\"" >>
SQ == << "'" >>
CR == << "\r" >>
LF == << "\n" >>
SEMI == << ";" >>
T_value == << "v", "a", "l", "u", "e" >>
T_rand == << "r", "a", "n", "d" >>
T_hash == << "h", "a", "s", "h" >>
T_name == << "n", "a", "m", "e", "=" >>
T_id == << "i", "d", "=" >>
T_SID == << "S", "I", "D", "=" >>
T_SetCookie == << "S", "e", "t", "-", "C", "o", "o", "k", "i", "e", ":" >>
T_SUCCESS == << "S", "U", "C", "C", "E", "S", "S" >>

\* name="field" / name='field' / id="field" / id='field'
Attr(attr, q, field) == attr \o q \o field \o q

----------------------------------------------------------------------------
(* GS308EP_CLI: hidden-field and cookie scanning                            *)

NotFound == [found |-> FALSE, value |-> << >>]

Found(v) == [found |-> TRUE, value |-> v]

\* The nearer of the two quote positions (either may be -1, not both)
CLI_startPos_DoubleFirst(quotePos, singleQuotePos) ==
    IF quotePos # -1 THEN quotePos ELSE singleQuotePos

CLI_startPos(quotePos, singleQuotePos) ==
    IF quotePos # -1 /\ (singleQuotePos = -1 \/ quotePos < singleQuotePos)
    THEN quotePos ELSE singleQuotePos

\* The value between startPos and the next quoteChar, not found when the
\* quote is never closed
CLI_closeQuote_ToEnd(html, startPos, quoteChar) ==
    Bind(Find(html, quoteChar, startPos), LAMBDA endPos :
      Found(Substr(html, startPos,
                   (IF endPos = -1 THEN Len(html) ELSE endPos) - startPos)))

CLI_closeQuote(html, startPos, quoteChar) ==
    Bind(Find(html, quoteChar, startPos), LAMBDA endPos :
      IF endPos = -1 THEN NotFound
      ELSE Found(Substr(html, startPos, endPos - startPos)))

\* The scan that extractRand and extractClientHash share once the marker is
\* found at pos: the value token, the nearer of the two quote characters,
\* the next occurrence of that same character.
CLI_quotedValue(html, pos) ==
    Bind(Find(html, T_value, pos), LAMBDA valuePos :
      IF valuePos = -1 THEN NotFound ELSE
      Bind(<< Find(html, DQ, valuePos), Find(html, SQ, valuePos) >>, LAMBDA q :
        IF q[1] = -1 /\ q[2] = -1 THEN NotFound ELSE
        Bind(CLI_startPos(q[1], q[2]), LAMBDA startPos :
          CLI_closeQuote(html, startPos + 1,
                         IF startPos = q[1] THEN DQ ELSE SQ))))

\* The marker: name="field" first, name='field' when that is absent
CLI_markerPos(html, field) ==
    Bind(Find(html, Attr(T_name, DQ, field), 0), LAMBDA pos :
      IF pos = -1 THEN Find(html, Attr(T_name, SQ, field), 0) ELSE pos)

\* GS308EP_CLI::extractRand: the rand token, "" when not found
CLI_extractRand(html) ==
    Bind(CLI_markerPos(html, T_rand), LAMBDA pos :
      IF pos = -1 THEN << >> ELSE CLI_quotedValue(html, pos).value)

\* GS308EP_CLI::extractClientHash: found when client_hash_ is assigned;
\* the call returns "assigned and not empty"
CLI_extractClientHash(html) ==
    Bind(CLI_markerPos(html, T_hash), LAMBDA pos :
      IF pos = -1 THEN NotFound ELSE CLI_quotedValue(html, pos))

\* the end of the cookie value: the first ; else the first CR else the first
\* LF at or after pos, -1 when there is none
CookieEnd(headers, pos) ==
    Bind(Find(headers, SEMI, pos), LAMBDA e1 :
      IF e1 # -1 THEN e1 ELSE
      Bind(Find(headers, CR, pos), LAMBDA e2 :
        IF e2 # -1 THEN e2 ELSE Find(headers, LF, pos)))

\* GS308EP_CLI::extractCookie: the SID value, "" when not found
CLI_extractCookie(headers) ==
    Bind(Find(headers, T_SID, 0), LAMBDA p0 :
      IF p0 = -1 THEN << >> ELSE
      Bind(CookieEnd(headers, p0 + 4), LAMBDA e :
        Substr(headers, p0 + 4, (IF e = -1 THEN Len(headers) ELSE e) - (p0 + 4))))

----------------------------------------------------------------------------
(* GS308EP (embedded library): hidden-field and cookie scanning            *)

\* indexOf(first, from), and indexOf(second, from) when that is -1
EitherQuote(html, first, second, from) ==
    Bind(Find(html, first, from), LAMBDA i :
      IF i = -1 THEN Find(html, second, from) ELSE i)

\* GS308EP::extractRand: keyed on id="rand" / id='rand'; the single quote is
\* looked for first, the double quote only when no single quote follows
GS308EP_extractRand(html) ==
    Bind(EitherQuote(html, Attr(T_id, DQ, T_rand), Attr(T_id, SQ, T_rand), 0),
         LAMBDA randIndex :
      IF randIndex = -1 THEN << >> ELSE
      Bind(Find(html, T_value, randIndex), LAMBDA valueIndex :
        IF valueIndex = -1 THEN << >> ELSE
        Bind(EitherQuote(html, SQ, DQ, valueIndex), LAMBDA startQuote :
          IF startQuote = -1 THEN << >> ELSE
          Bind(EitherQuote(html, SQ, DQ, startQuote + 1), LAMBDA endQuote :
            IF endQuote = -1 THEN << >>
            ELSE Substring(html, startQuote + 1, endQuote)))))

\* GS308EP::extractClientHash: found when _clientHash is assigned; the call
\* returns "assigned and not empty".  The double quote is looked for first,
\* the single quote only when no double quote follows
GS308EP_extractClientHash(html) ==
    Bind(EitherQuote(html, Attr(T_name, SQ, T_hash), Attr(T_name, DQ, T_hash), 0),
         LAMBDA hashIndex :
      IF hashIndex = -1 THEN NotFound ELSE
      Bind(Find(html, T_value, hashIndex), LAMBDA valueIndex :
        IF valueIndex = -1 THEN NotFound ELSE
        Bind(EitherQuote(html, DQ, SQ, valueIndex), LAMBDA startQuote :
          IF startQuote = -1 THEN NotFound ELSE
          Bind(EitherQuote(html, DQ, SQ, startQuote + 1), LAMBDA endQuote :
            IF endQuote = -1 THEN NotFound
            ELSE Found(Substring(html, startQuote + 1, endQuote))))))

\* GS308EP::extractCookie: found when _cookieSID is assigned; the call
\* returns "assigned and not empty".  Needs the text Set-Cookie: and a
\* terminator (; CR or LF)
GS308EP_extractCookie(headers) ==
    Bind(Find(headers, T_SetCookie, 0), LAMBDA cookieIndex :
      IF cookieIndex = -1 THEN NotFound ELSE
      Bind(Find(headers, T_SID, cookieIndex), LAMBDA s0 :
        IF s0 = -1 THEN NotFound ELSE
        Bind(CookieEnd(headers, s0 + 4), LAMBDA endIndex :
          IF endIndex = -1 THEN NotFound
          ELSE Found(Substring(headers, s0 + 4, endIndex)))))

----------------------------------------------------------------------------
(* Hashing and request bodies                                               *)

\* md5Hash: the digest is kept symbolic, md5(<input>), so that digests of
\* different inputs differ and a digest never equals its input
md5Hash(input) == << "md5(" >> \o input \o << ")" >>

\* mergeHash: MD5(password + rand)
mergeHash(password, rand) == md5Hash(password \o rand)

T_password == << "p", "a", "s", "s", "w", "o", "r", "d", "=" >>
T_ACTION == << "A", "C", "T", "I", "O", "N", "=", "A", "p", "p", "l", "y" >>
T_portID == << "&", "p", "o", "r", "t", "I", "D", "=" >>
T_ADMIN_MODE == << "&", "A", "D", "M", "I", "N", "_", "M", "O", "D", "E", "=" >>
T_PORT_PRIO == << "&", "P", "O", "R", "T", "_", "P", "R", "I", "O", "=", "0" >>
T_POW_MOD == << "&", "P", "O", "W", "_", "M", "O", "D", "=", "3" >>
T_POW_LIMT_TYP == << "&", "P", "O", "W", "_", "L", "I", "M", "T", "_", "T", "Y", "P", "=", "0" >>
T_DETEC_TYP == << "&", "D", "E", "T", "E", "C", "_", "T", "Y", "P", "=", "2" >>
T_DISCONNECT_TYP == << "&", "D", "I", "S", "C", "O", "N", "N", "E", "C", "T", "_", "T", "Y", "P", "=", "2" >>
T_hashField == << "&", "h", "a", "s", "h", "=" >>

Digits == << "0", "1", "2", "3", "4", "5", "6", "7", "8", "9" >>

\* std::to_string / String(int)
RECURSIVE to_string(_)
to_string(n) ==
    IF n < 0 THEN << "-" >> \o to_string(0 - n)
    ELSE IF n < 10 THEN << Digits[n + 1] >>
    ELSE to_string(n \div 10) \o << Digits[(n % 10) + 1] >>

\* the form body built by setPortState / setPoEPortState
PortConfigBody_OneBased(port, enabled, hash) ==
    T_ACTION \o T_portID \o to_string(port)
      \o T_ADMIN_MODE \o (IF enabled THEN << "1" >> ELSE << "0" >>)
      \o T_PORT_PRIO \o T_POW_MOD \o T_POW_LIMT_TYP \o T_DETEC_TYP
      \o T_DISCONNECT_TYP \o T_hashField \o hash

PortConfigBody(port, enabled, hash) ==
    T_ACTION \o T_portID \o to_string(port - 1)
      \o T_ADMIN_MODE \o (IF enabled THEN << "1" >> ELSE << "0" >>)
      \o T_PORT_PRIO \o T_POW_MOD \o T_POW_LIMT_TYP \o T_DETEC_TYP
      \o T_DISCONNECT_TYP \o T_hashField \o hash

LOGIN_URL == "/login.cgi"
POE_CONFIG_URL == "/PoEPortConfig.cgi"
POE_STATUS_URL == "/getPoePortStatus.cgi"

\* the password the object was constructed with
Password == << "p", "w" >>

----------------------------------------------------------------------------
(* Scanning of the status page (getPoePortStatus.cgi).  Numbers are         *)
(* integers: the span texts of the model are made of digits, "-", blanks    *)
(* and letters, on which std::stof and String::toFloat read an optional     *)
(* sign and a run of digits after leading blanks.                           *)

T_ml570 == << "m", "l", "5", "7", "0" >>
T_ml572 == << "m", "l", "5", "7", "2" >>
T_ml574 == << "m", "l", "5", "7", "4" >>
T_ml575 == << "m", "l", "5", "7", "5" >>
T_ml581 == << "m", "l", "5", "8", "1" >>
T_span == << "<", "s", "p", "a", "n", ">" >>
T_spanEnd == << "<", "/", "s", "p", "a", "n", ">" >>
T_poe_power_mode == << "p", "o", "e", "-", "p", "o", "w", "e", "r", "-", "m", "o", "d", "e" >>
T_powClassShow == << "p", "o", "w", "C", "l", "a", "s", "s", "S", "h", "o", "w" >>
T_ml003 == << "m", "l", "0", "0", "3", "@" >>
T_at == << "@" >>
T_Unknown == << "U", "n", "k", "n", "o", "w", "n" >>
T_Delivering == << "D", "e", "l", "i", "v", "e", "r", "i", "n", "g", " ", "P", "o", "w", "e", "r" >>
T_Class == << "C", "l", "a", "s", "s", " " >>
T_hidPortPwr == << "h", "i", "d", "P", "o", "r", "t", "P", "w", "r" >>

\* "value=\"" + std::to_string(port) + "\""
PortMarker(port) == T_value \o << "=" >> \o DQ \o to_string(port) \o DQ

IsDigit(c) == \E d \in 1 .. 10 : Digits[d] = c

DigitOf(c) == (CHOOSE d \in 1 .. 10 : Digits[d] = c) - 1

IsSpace(c) == c \in {" ", "\t", "\r", "\n"}

\* the first index at or after i that holds no blank
RECURSIVE SkipSpaces(_, _)
SkipSpaces(text, i) ==
    IF i <= Len(text) /\ IsSpace(text[i]) THEN SkipSpaces(text, i + 1) ELSE i

\* the run of digits from index i on: how many, and their value
RECURSIVE DigitRun(_, _, _, _)
DigitRun(text, i, n, v) ==
    IF i <= Len(text) /\ IsDigit(text[i])
    THEN DigitRun(text, i + 1, n + 1, 10 * v + DigitOf(text[i]))
    ELSE [n |-> n, v |-> v]

\* the number a text starts with: ok is FALSE when it starts with none
NumberPrefix(text) ==
    Bind(SkipSpaces(text, 1), LAMBDA i :
      Bind(i <= Len(text) /\ text[i] = "-", LAMBDA neg :
        Bind(DigitRun(text, IF neg THEN i + 1 ELSE i, 0, 0), LAMBDA run :
          [ok |-> run.n > 0, value |-> IF neg THEN 0 - run.v ELSE run.v])))

\* std::stof: ok is FALSE when it throws
stof(text) == NumberPrefix(text)

\* String::toFloat: 0 when the text starts with no number
toFloat(text) == IF NumberPrefix(text).ok THEN NumberPrefix(text).value ELSE 0

\* String::trim: blanks removed at both ends
RECURSIVE trim(_)
trim(text) ==
    IF text = << >> THEN text
    ELSE IF IsSpace(text[1]) THEN trim(Tail(text))
    ELSE IF IsSpace(text[Len(text)]) THEN trim(SubSeq(text, 1, Len(text) - 1))
    ELSE text

\* the text of the next <span>...</span> at or after from
SpanAfter(html, from) ==
    Bind(Find(html, T_span, from), LAMBDA spanStart :
      IF spanStart = -1 THEN NotFound ELSE
      Bind(Find(html, T_spanEnd, spanStart + 6), LAMBDA spanEnd :
        IF spanEnd = -1 THEN NotFound
        ELSE Found(Substr(html, spanStart + 6, spanEnd - (spanStart + 6)))))

\* GS308EP_CLI::extractPortPower: the watts of the port, -1 when not found
CLI_extractPortPower(html, port) ==
    Bind(Find(html, PortMarker(port), 0), LAMBDA portPos :
      IF portPos = -1 THEN -1 ELSE
      Bind(Find(html, T_ml574, portPos), LAMBDA ml574Pos :
        IF ml574Pos = -1 \/ ml574Pos > portPos + 2000 THEN -1 ELSE
        Bind(SpanAfter(html, ml574Pos + 5), LAMBDA span :
          IF ~span.found THEN -1 ELSE
          Bind(stof(span.value), LAMBDA f :
            IF f.ok THEN f.value ELSE -1))))

\* GS308EP::extractPortPower: the window is 1000 and the text is read with
\* trim and toFloat
GS308EP_extractPortPower(html, port) ==
    Bind(Find(html, PortMarker(port), 0), LAMBDA portPos :
      IF portPos = -1 THEN -1 ELSE
      Bind(Find(html, T_ml574, portPos), LAMBDA ml574Pos :
        IF ml574Pos = -1 \/ ml574Pos > portPos + 1000 THEN -1 ELSE
        Bind(SpanAfter(html, ml574Pos + 5), LAMBDA span :
          IF ~span.found THEN -1 ELSE toFloat(trim(span.value)))))

\* GS308EP_test.h, the header the unit tests compile in place of GS308EP.cpp.
\* GS308EPTest::extractRand: keyed on name="rand" / name='rand'; the nearer
\* of the two quote characters opens the value
GS308EPTest_extractRand(html) ==
    Bind(Find(html, Attr(T_name, DQ, T_rand), 0), LAMBDA p0 :
      Bind(IF p0 = -1 THEN Find(html, Attr(T_name, SQ, T_rand), 0) ELSE p0,
           LAMBDA pos :
        IF pos = -1 THEN << >> ELSE
        Bind(Find(html, T_value, pos), LAMBDA valuePos :
          IF valuePos = -1 THEN << >> ELSE
          Bind(<< Find(html, DQ, valuePos), Find(html, SQ, valuePos) >>, LAMBDA q :
            IF q[1] = -1 /\ q[2] = -1 THEN << >> ELSE
            Bind(IF q[1] # -1 /\ (q[2] = -1 \/ q[1] < q[2]) THEN q[1] ELSE q[2],
                 LAMBDA startPos :
              Bind(Find(html, IF startPos = q[1] THEN DQ ELSE SQ, startPos + 1),
                   LAMBDA endPos :
                IF endPos = -1 THEN << >>
                ELSE Substring(html, startPos + 1, endPos)))))))

\* GS308EPTest::extractCookie: found when _cookieSID is assigned.  Needs only
\* the text SID=; the value runs to the end of the headers when no
\* terminator follows
GS308EPTest_extractCookie(headers) ==
    Bind(Find(headers, T_SID, 0), LAMBDA p0 :
      IF p0 = -1 THEN NotFound ELSE
      Bind(CookieEnd(headers, p0 + 4), LAMBDA e :
        Found(Substr(headers, p0 + 4,
                     (IF e = -1 THEN Len(headers) ELSE e) - (p0 + 4)))))

\* what a call of a float function comes to: a value, or an exception that
\* leaves the function
Value(v) == [threw |-> FALSE, value |-> v]

Thrown == [threw |-> TRUE, value |-> 0]

\* GS308EPTest::extractPortPower: the window is 2000 and the text is read
\* with std::stof, whose exception is not caught
GS308EPTest_extractPortPower(html, port) ==
    Bind(Find(html, PortMarker(port), 0), LAMBDA portPos :
      IF portPos = -1 THEN Value(-1) ELSE
      Bind(Find(html, T_ml574, portPos), LAMBDA ml574Pos :
        IF ml574Pos = -1 \/ ml574Pos > portPos + 2000 THEN Value(-1) ELSE
        Bind(SpanAfter(html, ml574Pos + 5), LAMBDA span :
          IF ~span.found THEN Value(-1) ELSE
          Bind(stof(span.value), LAMBDA f :
            IF f.ok THEN Value(f.value) ELSE Thrown))))

\* offset of the last occurrence of pat in s, -1 if none (the while loop of
\* GS308EP_CLI::extractPortStats, String::lastIndexOf)
LastFind_First(s, pat) == Find(s, pat, 0)

LastFind(s, pat) ==
    Bind({ i \in 0 .. (Len(s) - Len(pat)) : MatchAt(s, pat, i) }, LAMBDA hits :
      IF hits = { } THEN -1 ELSE CHOOSE i \in hits : \A j \in hits : i >= j)

\* the record extractPortStats starts from
DefaultStats(port) ==
    [port |-> port, enabled |-> FALSE, status |-> T_Unknown,
     voltage |-> 0, current |-> 0, power |-> 0, temperature |-> 0,
     fault |-> T_Unknown, powerClass |-> T_Unknown]

\* the up to 500 characters before the port marker
BackwardArea(html, portPos) ==
    Bind(IF portPos > 500 THEN portPos - 500 ELSE 0, LAMBDA searchStart :
      Substr(html, searchStart, portPos - searchStart))

\* the text of the span that follows the label field, when the label lies
\* less than window characters after the port marker
ForwardSpan(html, portPos, field, window) ==
    Bind(Find(html, field, portPos), LAMBDA fieldPos :
      IF fieldPos # -1 /\ fieldPos < portPos + window
      THEN SpanAfter(html, fieldPos + 5) ELSE NotFound)

\* the text between the > that closes the powClassShow tag and </span>
ClassSpan(searchArea, classPos) ==
    Bind(Find(searchArea, << ">" >>, classPos), LAMBDA spanStart :
      IF spanStart = -1 THEN NotFound ELSE
      Bind(Find(searchArea, T_spanEnd, spanStart + 1), LAMBDA spanEnd :
        IF spanEnd = -1 THEN NotFound
        ELSE Found(Substr(searchArea, spanStart + 1, spanEnd - (spanStart + 1)))))

\* GS308EP_CLI: the power class shown for a class text, old when the text is
\* ml003@ without a second @
CLI_powerClass(classText, old) ==
    IF Len(classText) > 7 /\ MatchAt(classText, T_ml003, 0)
    THEN Bind(Find(classText, T_at, 6), LAMBDA atPos :
           IF atPos # -1 THEN T_Class \o Substr(classText, 6, atPos - 6) ELSE old)
    ELSE classText

\* GS308EP_CLI's extractValue lambda: 0 when any step fails
CLI_extractValue(html, portPos, field) ==
    Bind(ForwardSpan(html, portPos, field, 2000), LAMBDA span :
      IF ~span.found THEN 0 ELSE
      Bind(stof(span.value), LAMBDA f : IF f.ok THEN f.value ELSE 0))

\* GS308EP_CLI::extractPortStats: [ok, stats]
CLI_extractPortStats_NeedsPower(html, port) ==
    [ok |-> Find(html, PortMarker(port), 0) # -1 /\ CLI_extractPortPower(html, port) # -1,
     stats |-> DefaultStats(port)]

CLI_extractPortStats(html, port) ==
    Bind(Find(html, PortMarker(port), 0), LAMBDA portPos :
      IF portPos = -1 THEN [ok |-> FALSE, stats |-> DefaultStats(port)] ELSE
      Bind(BackwardArea(html, portPos), LAMBDA searchArea :
        Bind(<< LastFind(searchArea, T_poe_power_mode),
                LastFind(searchArea, T_powClassShow) >>, LAMBDA last :
          Bind(<< IF last[1] = -1 THEN NotFound ELSE SpanAfter(searchArea, last[1]),
                  IF last[2] = -1 THEN NotFound ELSE ClassSpan(searchArea, last[2]),
                  ForwardSpan(html, portPos, T_ml581, 2000) >>, LAMBDA span :
            [ok |-> TRUE,
             stats |->
               [port |-> port,
                enabled |-> span[1].found /\ span[1].value = T_Delivering,
                status |-> IF span[1].found THEN span[1].value ELSE T_Unknown,
                voltage |-> CLI_extractValue(html, portPos, T_ml570),
                current |-> CLI_extractValue(html, portPos, T_ml572),
                power |-> CLI_extractPortPower(html, port),
                temperature |-> CLI_extractValue(html, portPos, T_ml575),
                fault |-> IF span[3].found THEN span[3].value ELSE T_Unknown,
                powerClass |-> IF span[2].found
                               THEN CLI_powerClass(span[2].value, T_Unknown)
                               ELSE T_Unknown]]))))

\* GS308EP: the power class shown for a trimmed class text
GS308EP_powerClass(classText, old) ==
    IF Len(classText) >= 6 /\ MatchAt(classText, T_ml003, 0)
    THEN Bind(Find(classText, T_at, 6), LAMBDA atPos :
           IF atPos # -1 /\ atPos > 6
           THEN T_Class \o Substring(classText, 6, atPos) ELSE old)
    ELSE classText

\* GS308EP::extractPortStats, one forward field: toFloat of the trimmed span
GS308EP_extractValue(html, portPos, field) ==
    Bind(ForwardSpan(html, portPos, field, 1000), LAMBDA span :
      IF ~span.found THEN 0 ELSE toFloat(trim(span.value)))

\* GS308EP::extractPortStats: [ok, stats]
GS308EP_extractPortStats(html, port) ==
    Bind(Find(html, PortMarker(port), 0), LAMBDA portPos :
      IF portPos = -1 THEN [ok |-> FALSE, stats |-> DefaultStats(port)] ELSE
      Bind(BackwardArea(html, portPos), LAMBDA searchArea :
        Bind(<< LastFind(searchArea, T_poe_power_mode),
                LastFind(searchArea, T_powClassShow) >>, LAMBDA last :
          Bind(<< IF last[1] = -1 THEN NotFound ELSE SpanAfter(searchArea, last[1]),
                  IF last[2] = -1 THEN NotFound ELSE ClassSpan(searchArea, last[2]),
                  ForwardSpan(html, portPos, T_ml581, 1000) >>, LAMBDA span :
            [ok |-> TRUE,
             stats |->
               [port |-> port,
                enabled |-> span[1].found /\ trim(span[1].value) = T_Delivering,
                status |-> IF span[1].found THEN trim(span[1].value) ELSE T_Unknown,
                voltage |-> GS308EP_extractValue(html, portPos, T_ml570),
                current |-> GS308EP_extractValue(html, portPos, T_ml572),
                power |-> GS308EP_extractPortPower(html, port),
                temperature |-> GS308EP_extractValue(html, portPos, T_ml575),
                fault |-> IF span[3].found THEN trim(span[3].value) ELSE T_Unknown,
                powerClass |-> IF span[2].found
                               THEN GS308EP_powerClass(trim(span[2].value), T_Unknown)
                               ELSE T_Unknown]]))))

\* pieces of status pages
Filler(n) == [ i \in 1 .. n |-> " " ]

Span(text) == T_span \o text \o T_spanEnd

\* what may stand for a forward field: nothing, the bare label, the label
\* and a span that is never closed, the label and a span with a text
FieldShapes(texts) ==
    { [is |-> "absent", text |-> << >>], [is |-> "bare", text |-> << >>],
      [is |-> "open", text |-> << "5" >>] } \cup
    { [is |-> "span", text |-> x] : x \in texts }

FieldHtml(label, shape) ==
    CASE shape.is = "absent" -> << >>
      [] shape.is = "bare"   -> label
      [] shape.is = "open"   -> label \o T_span \o shape.text
      [] OTHER               -> label \o Span(shape.text)

\* <input class="port" value="1">
PortAnchor(port) ==
    << "<", "i", "n", "p", "u", "t", " ", "c", "l", "a", "s", "s", "=",
       "\"", "p", "o", "r", "t", "\"", " " >> \o PortMarker(port) \o << ">" >>

\* the block of one port: anchor, gap blanks, then voltage, fault and power
PortBlock(port, gap, voltage, fault, power) ==
    PortAnchor(port) \o Filler(gap) \o FieldHtml(T_ml570, voltage)
      \o FieldHtml(T_ml581, fault) \o FieldHtml(T_ml574, power)

----------------------------------------------------------------------------
(* The switch as seen through the transport: what it may answer.  A        *)
(* response is [ok, code, headers, body]; ok is FALSE when the exchange     *)
(* itself failed (no connection, timeout).                                  *)

T_input == << "<", "i", "n", "p", "u", "t", " " >>
T_form == << "<", "f", "o", "r", "m", ">" >>
SP == << " " >>
EQ == << "=" >>
GT == << ">" >>

\* <input id="rand" name="rand" value='17'>
LoginPageRand ==
    T_input \o Attr(T_id, DQ, T_rand) \o SP \o Attr(T_name, DQ, T_rand) \o SP
      \o T_value \o EQ \o SQ \o << "1", "7" >> \o SQ \o GT

\* a login page of a firmware that embeds no rand field
LoginPageNoRand == T_form

\* <input name='hash' id='hash' value="h1">
ConfigPageHash1 ==
    T_input \o Attr(T_name, SQ, T_hash) \o SP \o Attr(T_id, SQ, T_hash) \o SP
      \o T_value \o EQ \o DQ \o << "h", "1" >> \o DQ \o GT

\* <input name="hash" value="h2">
ConfigPageHash2 ==
    T_input \o Attr(T_name, DQ, T_hash) \o SP
      \o T_value \o EQ \o DQ \o << "h", "2" >> \o DQ \o GT

\* <input name="hash" value="">
ConfigPageEmptyHash ==
    T_input \o Attr(T_name, DQ, T_hash) \o SP \o T_value \o EQ \o DQ \o DQ \o GT

ConfigPageNoHash == T_form

\* header texts: none, SID=a with a terminator, SID=b without one, an empty SID
HdrNone == << >>
HdrSidA == T_SetCookie \o SP \o T_SID \o << "a" >> \o SEMI
HdrSidB == T_SetCookie \o SP \o T_SID \o << "b" >>
HdrSidEmpty == T_SetCookie \o SP \o T_SID \o SEMI

FailedExchange == [ok |-> FALSE, code |-> 0, headers |-> << >>, body |-> << >>]

Resp(code, headers, body) == [ok |-> TRUE, code |-> code, headers |-> headers, body |-> body]

\* A status other than 200 is paired with the page that would let the call
\* go on if the status were not looked at.
LoginGetResponses ==
    { FailedExchange,
      Resp(500, HdrNone, LoginPageRand),
      Resp(200, HdrNone, LoginPageRand),
      Resp(200, HdrSidA, LoginPageRand),
      Resp(200, HdrNone, LoginPageNoRand),
      Resp(200, HdrNone, << >>) }

LoginPostResponses ==
    { FailedExchange } \cup
    { Resp(c, h, << >>) : c \in {200, 500}, h \in {HdrNone, HdrSidA, HdrSidB, HdrSidEmpty} }

ConfigGetResponses ==
    { FailedExchange,
      Resp(500, HdrNone, ConfigPageHash1),
      Resp(200, HdrSidEmpty, ConfigPageHash1) } \cup
    { Resp(200, HdrNone, b) :
        b \in {ConfigPageHash1, ConfigPageHash2, ConfigPageEmptyHash, ConfigPageNoHash} }

ConfigPostResponses ==
    { FailedExchange, Resp(200, HdrSidB, << >>) } \cup
    { Resp(c, HdrNone, b) : c \in {200, 500}, b \in {<< >>, T_SUCCESS} }

\* <input id="hidPortPwr" value="1">
HidPortPwr(c) ==
    T_input \o << "i", "d", "=" >> \o DQ \o T_hidPortPwr \o DQ \o SP
      \o T_value \o EQ \o DQ \o << c >> \o DQ \o GT

\* the block of a port on the status page: anchor, switch state, power
StatusBlock(port, c, power) ==
    PortAnchor(port) \o HidPortPwr(c) \o FieldHtml(T_ml574, power)

\* port 1 delivering 5, port 2 switched off
StatusPageTwoPorts ==
    StatusBlock(1, "1", [is |-> "span", text |-> << "5" >>])
      \o StatusBlock(2, "0", [is |-> "span", text |-> << "0" >>])

\* port 2 alone, without a power reading
StatusPagePort2 == StatusBlock(2, "1", [is |-> "bare", text |-> << >>])

StatusPageNoPorts == T_form

StatusPages == {StatusPageTwoPorts, StatusPagePort2, StatusPageNoPorts}

StatusGetResponses ==
    { FailedExchange, Resp(500, HdrNone, StatusPageTwoPorts) } \cup
    { Resp(200, HdrNone, b) : b \in StatusPages }

\* what the transport answers to a GET of a path: a URL that does not name
\* the switch reaches nothing
AnswersTo(path) ==
    IF path = POE_STATUS_URL THEN StatusGetResponses ELSE {FailedExchange}

AllResponses ==
    LoginGetResponses \cup LoginPostResponses \cup ConfigGetResponses
      \cup ConfigPostResponses

\* every text the switch of this model can send
SwitchTexts == { r.headers : r \in AllResponses } \cup { r.body : r \in AllResponses }

\* The scans of those texts, each computed once
Scanned(F(_)) == [ text \in SwitchTexts |-> F(text) ]

CLI_cookies == Scanned(CLI_extractCookie)
CLI_rands == Scanned(CLI_extractRand)
CLI_hashes == Scanned(CLI_extractClientHash)
GS308EP_cookies == Scanned(GS308EP_extractCookie)
GS308EP_rands == Scanned(GS308EP_extractRand)
GS308EP_hashes == Scanned(GS308EP_extractClientHash)
SuccessEchoed == Scanned(LAMBDA text : Find(text, T_SUCCESS, 0) # -1)

----------------------------------------------------------------------------
(* HTTP exchanges.  Each operator returns the object's fields afterwards,   *)
(* the text handed back to the caller and the request that went out.        *)
(* curl_easy_init / HTTPClient::begin are taken to succeed.                 *)

CookieHeader(cookie_sid) ==
    IF cookie_sid # << >> THEN T_SID \o cookie_sid ELSE << >>

Request(method, path, body, cookie_sid, resp) ==
    [method |-> method, path |-> path, body |-> body,
     cookie |-> CookieHeader(cookie_sid), resp |-> resp]

\* GS308EP_CLI::httpGet / httpPost (the two differ in CURLOPT_POSTFIELDS only)
CLI_http(st, method, path, data, resp) ==
    Bind(IF resp.ok THEN CLI_cookies[resp.headers] ELSE << >>, LAMBDA cookie :
      [st |-> [st EXCEPT
                 !.last_response_code = IF resp.ok THEN resp.code ELSE 0,
                 !.cookie_sid = IF cookie # << >> THEN cookie ELSE @],
       response |-> resp.body,
       req |-> Request(method, path, data, st.cookie_sid, resp)])

CLI_httpGet(st, path, resp) == CLI_http(st, "GET", path, << >>, resp)

CLI_httpPost(st, path, data, resp) == CLI_http(st, "POST", path, data, resp)

\* the text GS308EP::httpGet / httpPost hand back: the body when the status
\* is 200, "" otherwise
GS308EP_response_AnyStatus(code, resp) == IF resp.ok THEN resp.body ELSE << >>

GS308EP_response(code, resp) == IF code = 200 THEN resp.body ELSE << >>

\* GS308EP::httpGet / httpPost: the body and the Set-Cookie header are read
\* only when the status is 200; a failed exchange yields a negative code
GS308EP_http(st, method, url, data, resp) ==
    Bind(IF resp.ok THEN resp.code ELSE -1, LAMBDA code :
      Bind(IF code = 200 /\ resp.headers # << >>
           THEN GS308EP_cookies[resp.headers] ELSE NotFound, LAMBDA c :
        [st |-> [st EXCEPT
                   !.last_response_code = code,
                   !.cookie_sid = IF c.found THEN c.value ELSE @],
         response |-> GS308EP_response(code, resp),
         req |-> Request(method, url, data, st.cookie_sid, resp)]))

GS308EP_httpGet(st, url, resp) == GS308EP_http(st, "GET", url, << >>, resp)

GS308EP_httpPost(st, url, data, resp) == GS308EP_http(st, "POST", url, data, resp)

----------------------------------------------------------------------------
(* Operations of the controller object.  st is the record of its fields    *)
(* [authenticated, cookie_sid, client_hash, last_response_code]; r1 and r2  *)
(* are the transport's answers to the first and the second exchange of the  *)
(* call.  Each operator returns [st, ret, reqs]: the fields afterwards, the *)
(* returned value and the requests issued.                                  *)

Return(st, ret, rq) == [st |-> st, ret |-> ret, reqs |-> rq]

\* isValidPort (GS308EP_CLI: int port; GS308EP: uint8_t port, MAX_PORTS = 8)
isValidPort_UpTo9(port) == port >= 1 /\ port <= 9

isValidPort(port) == port >= 1 /\ port <= 8

\* client_hash_ = html.substr(...) / _clientHash = html.substring(...): the
\* field is overwritten whenever the scan reached its closing quote
StoreHash_KeepOld(st, h) ==
    [st EXCEPT !.client_hash = IF h.found /\ @ = << >> THEN h.value ELSE @]

StoreHash(st, h) == [st EXCEPT !.client_hash = IF h.found THEN h.value ELSE @]

\* GS308EP_CLI::login
CLI_login(st, r1, r2) ==
    Bind(CLI_httpGet(st, LOGIN_URL, r1), LAMBDA g :
      IF g.st.last_response_code # 200 THEN Return(g.st, FALSE, << g.req >>) ELSE
      Bind(CLI_rands[g.response], LAMBDA rand :
        IF rand = << >> THEN Return(g.st, FALSE, << g.req >>) ELSE
        Bind(CLI_httpPost(g.st, LOGIN_URL,
                          T_password \o mergeHash(Password, rand), r2), LAMBDA p :
          IF p.st.last_response_code # 200 \/ p.st.cookie_sid = << >>
          THEN Return(p.st, FALSE, << g.req, p.req >>)
          ELSE Return([p.st EXCEPT !.authenticated = TRUE], TRUE,
                      << g.req, p.req >>))))

CLI_setPortState_StoredHash(st, port, enabled, r1, r2) ==
    IF ~st.authenticated THEN Return(st, FALSE, << >>) ELSE
    IF ~isValidPort(port) THEN Return(st, FALSE, << >>) ELSE
    Bind(CLI_httpGet(st, POE_CONFIG_URL, r1), LAMBDA g :
      IF g.st.last_response_code # 200 THEN Return(g.st, FALSE, << g.req >>) ELSE
      Bind(CLI_hashes[g.response], LAMBDA h :
        Bind(StoreHash(g.st, h), LAMBDA st2 :
          IF st2.client_hash = << >> THEN Return(st2, FALSE, << g.req >>) ELSE
          Bind(CLI_httpPost(st2, POE_CONFIG_URL,
                            PortConfigBody(port, enabled, st2.client_hash), r2),
               LAMBDA p :
            Return(p.st, p.st.last_response_code = 200, << g.req, p.req >>)))))

\* GS308EP_CLI::setPortState
CLI_setPortState(st, port, enabled, r1, r2) ==
    IF ~st.authenticated THEN Return(st, FALSE, << >>) ELSE
    IF ~isValidPort(port) THEN Return(st, FALSE, << >>) ELSE
    Bind(CLI_httpGet(st, POE_CONFIG_URL, r1), LAMBDA g :
      IF g.st.last_response_code # 200 THEN Return(g.st, FALSE, << g.req >>) ELSE
      Bind(CLI_hashes[g.response], LAMBDA h :
        Bind(StoreHash(g.st, h), LAMBDA st2 :
          IF ~(h.found /\ h.value # << >>) THEN Return(st2, FALSE, << g.req >>) ELSE
          Bind(CLI_httpPost(st2, POE_CONFIG_URL,
                            PortConfigBody(port, enabled, st2.client_hash), r2),
               LAMBDA p :
            Return(p.st, p.st.last_response_code = 200, << g.req, p.req >>)))))

GS308EP_fetchLoginPage_AnyResponse(st, r1) ==
    Bind(GS308EP_httpGet(st, LOGIN_URL, r1), LAMBDA g :
      Bind(GS308EP_rands[g.response], LAMBDA rand :
        Return([g.st EXCEPT !.client_hash =
                   IF rand = << >> THEN md5Hash(Password)
                   ELSE mergeHash(Password, rand)],
               TRUE, << g.req >>)))

\* GS308EP::fetchLoginPage
GS308EP_fetchLoginPage(st, r1) ==
    Bind(GS308EP_httpGet(st, LOGIN_URL, r1), LAMBDA g :
      IF g.response = << >> THEN Return(g.st, FALSE, << g.req >>) ELSE
      Bind(GS308EP_rands[g.response], LAMBDA rand :
        Return([g.st EXCEPT !.client_hash =
                   IF rand = << >> THEN md5Hash(Password)
                   ELSE mergeHash(Password, rand)],
               TRUE, << g.req >>)))

\* GS308EP::login
GS308EP_login(st, r1, r2) ==
    Bind(GS308EP_fetchLoginPage(st, r1), LAMBDA f :
      IF ~f.ret THEN Return(f.st, FALSE, f.reqs) ELSE
      Bind(GS308EP_httpPost(f.st, LOGIN_URL, T_password \o f.st.client_hash, r2),
           LAMBDA p :
        Return([p.st EXCEPT !.authenticated = p.st.cookie_sid # << >>],
               p.st.cookie_sid # << >>, f.reqs \o << p.req >>)))

\* GS308EP::setPoEPortState
GS308EP_setPoEPortState(st, port, enabled, r1, r2) ==
    IF ~isValidPort(port) \/ ~st.authenticated THEN Return(st, FALSE, << >>) ELSE
    Bind(GS308EP_httpGet(st, POE_CONFIG_URL, r1), LAMBDA g :
      Bind(GS308EP_hashes[g.response], LAMBDA h :
        Bind(StoreHash(g.st, h), LAMBDA st2 :
          IF ~(h.found /\ h.value # << >>) THEN Return(st2, FALSE, << g.req >>) ELSE
          Bind(GS308EP_httpPost(st2, POE_CONFIG_URL,
                                PortConfigBody(port, enabled, st2.client_hash), r2),
               LAMBDA p :
            Return(p.st,
                   SuccessEchoed[p.response] \/ p.st.last_response_code = 200,
                   << g.req, p.req >>)))))

\* URLs of the embedded library, as the pieces they are put together from.
\* The path of a request is what follows http://<host> in its URL.
Host == "192.168.0.239"

POE_STATUS_URL_TEMPLATE == << "http://", "%s", POE_STATUS_URL >>

\* snprintf(url, sizeof(url), template, _ip.c_str())
snprintf(template, ip) ==
    [ i \in DOMAIN template |-> IF template[i] = "%s" THEN ip ELSE template[i] ]

\* String("http://") + _ip + template
ConcatUrl(ip, template) == << "http://", ip >> \o template

NotTheSwitch == "(no URL of the switch)"

PathOf(url) ==
    IF Len(url) = 3 /\ url[1] = "http://" /\ url[2] = Host THEN url[3]
    ELSE NotTheSwitch

\* a read operation returns [st, ret, reqs, out]: out is what it reports
ReturnOut(st, ret, out, rq) == [st |-> st, ret |-> ret, reqs |-> rq, out |-> out]

\* GS308EP_CLI::getPortStatus: the lookup in the page
CLI_portEnabled(statusPage, port) ==
    Bind(Find(statusPage, PortMarker(port), 0), LAMBDA portPos :
      IF portPos = -1 THEN FALSE ELSE
      Bind(Substr(statusPage, portPos,
                  (IF portPos + 1000 < Len(statusPage) THEN portPos + 1000
                   ELSE Len(statusPage)) - portPos), LAMBDA searchArea :
        Bind(Find(searchArea, T_hidPortPwr, 0), LAMBDA pwrPos :
          IF pwrPos = -1 THEN FALSE ELSE
          Bind(Find(searchArea, T_value, pwrPos), LAMBDA valuePos :
            IF valuePos = -1 THEN FALSE ELSE
            Bind(Find(searchArea, DQ, valuePos), LAMBDA quotePos :
              IF quotePos = -1 THEN FALSE
              ELSE quotePos + 1 < Len(searchArea) /\ searchArea[quotePos + 2] = "1")))))

\* sum of the values of a sequence of numbers
RECURSIVE Sum(_)
Sum(s) == IF s = << >> THEN 0 ELSE s[1] + Sum(Tail(s))

\* the loop of showTotalPower / getTotalPoEPower over the ports 1..8
TotalPower(power(_)) ==
    Sum([ port \in 1 .. 8 |-> IF power(port) >= 0 THEN power(port) ELSE 0 ])

\* the records of the ports from..8 that extractPortStats finds
RECURSIVE CLI_collectStats(_, _)
CLI_collectStats(statusPage, from) ==
    IF from > 8 THEN << >> ELSE
    Bind(CLI_extractPortStats(statusPage, from), LAMBDA r :
      (IF r.ok THEN << r.stats >> ELSE << >>) \o CLI_collectStats(statusPage, from + 1))

\* what outputAllStats prints: the records and the accumulated power
AllStatsOutput(stats) ==
    [stats |-> stats, total |-> Sum([ i \in DOMAIN stats |-> stats[i].power ])]

\* GS308EP::getPoEPortStatus: the lookup in the response
GS308EP_portEnabled(response, port) ==
    Bind(Find(response, << "\"", "p", "o", "r", "t", "\"", " " >> \o PortMarker(port), 0),
         LAMBDA portIndex :
      IF portIndex = -1 THEN FALSE ELSE
      Bind(Find(response, T_hidPortPwr \o DQ \o << " " >> \o T_value \o << "=" >> \o DQ,
                portIndex), LAMBDA pwrIndex :
        IF pwrIndex = -1 THEN FALSE
        ELSE pwrIndex + 19 < Len(response) /\ response[pwrIndex + 20] = "1"))

\* the loop of getAllPoEPortStats: stats[0..7] all written, allSuccess
GS308EP_collectStats(response) ==
    Bind([ port \in 1 .. 8 |-> GS308EP_extractPortStats(response, port) ], LAMBDA r :
      [allSuccess |-> \A port \in 1 .. 8 : r[port].ok,
       stats |-> [ port \in 1 .. 8 |-> r[port].stats ]])

\* The scans of the status pages of this model, made once per page and port.
StatusBodies == StatusPages \cup { << >> }

ScannedPage(F(_, _)) ==
    [ page \in StatusBodies |-> [ port \in 0 .. 8 |-> F(page, port) ] ]

CLI_enabled == ScannedPage(CLI_portEnabled)
CLI_powers == ScannedPage(CLI_extractPortPower)
CLI_allStats == [ page \in StatusBodies |-> CLI_collectStats(page, 1) ]
GS308EP_enabled == ScannedPage(GS308EP_portEnabled)
GS308EP_powers == ScannedPage(GS308EP_extractPortPower)
GS308EP_allStats == [ page \in StatusBodies |-> GS308EP_collectStats(page) ]

\* GS308EP_CLI::getPortStatus
CLI_getPortStatus(st, port, r1) ==
    IF ~st.authenticated \/ ~isValidPort(port) THEN Return(st, FALSE, << >>) ELSE
    Bind(CLI_httpGet(st, POE_STATUS_URL, r1), LAMBDA g :
      IF g.st.last_response_code # 200 THEN Return(g.st, FALSE, << g.req >>)
      ELSE Return(g.st, CLI_enabled[g.response][port], << g.req >>))

\* GS308EP_CLI::showPortStatus: reports the status, returns true
CLI_showPortStatus(st, port, r1) ==
    Bind(CLI_getPortStatus(st, port, r1), LAMBDA s :
      ReturnOut(s.st, TRUE, s.ret, s.reqs))

\* GS308EP_CLI::showPortPower
CLI_showPortPower(st, port, r1) ==
    Bind(CLI_httpGet(st, POE_STATUS_URL, r1), LAMBDA g :
      IF g.st.last_response_code # 200 THEN ReturnOut(g.st, FALSE, "none", << g.req >>)
      ELSE Bind(CLI_powers[g.response][port], LAMBDA power :
             ReturnOut(g.st, power >= 0, power, << g.req >>)))

\* GS308EP_CLI::showTotalPower
CLI_showTotalPower(st, r1) ==
    Bind(CLI_httpGet(st, POE_STATUS_URL, r1), LAMBDA g :
      IF g.st.last_response_code # 200 THEN ReturnOut(g.st, FALSE, "none", << g.req >>)
      ELSE ReturnOut(g.st, TRUE,
                     TotalPower(LAMBDA port : CLI_powers[g.response][port]),
                     << g.req >>))

\* GS308EP_CLI::showAllStats
CLI_showAllStats(st, r1) ==
    Bind(CLI_httpGet(st, POE_STATUS_URL, r1), LAMBDA g :
      IF g.st.last_response_code # 200 THEN ReturnOut(g.st, FALSE, "none", << g.req >>)
      ELSE Bind(CLI_allStats[g.response], LAMBDA stats :
             ReturnOut(g.st, stats # << >>, AllStatsOutput(stats), << g.req >>)))

GS308EP_getPoEPortStatus(st, port, r1) ==
    IF ~isValidPort(port) \/ ~st.authenticated
    THEN ReturnOut(st, FALSE, FALSE, << >>) ELSE
    Bind(GS308EP_httpGet(st, PathOf(snprintf(POE_STATUS_URL_TEMPLATE, Host)), r1),
         LAMBDA g :
      Bind(GS308EP_enabled[g.response][port], LAMBDA on :
        ReturnOut(g.st, on, on, << g.req >>)))

\* GS308EP::getPoEPortPower: the power, -1 on failure
GS308EP_getPoEPortPower(st, port, r1) ==
    IF ~isValidPort(port) THEN ReturnOut(st, FALSE, -1, << >>) ELSE
    IF ~st.authenticated THEN ReturnOut(st, FALSE, -1, << >>) ELSE
    Bind(GS308EP_httpGet(st, PathOf(ConcatUrl(Host, POE_STATUS_URL_TEMPLATE)), r1),
         LAMBDA g :
      IF g.st.last_response_code # 200 THEN ReturnOut(g.st, FALSE, -1, << g.req >>)
      ELSE Bind(GS308EP_powers[g.response][port], LAMBDA power :
             ReturnOut(g.st, power # -1, power, << g.req >>)))

\* GS308EP::getTotalPoEPower: the total, -1 on failure
GS308EP_getTotalPoEPower(st, r1) ==
    IF ~st.authenticated THEN ReturnOut(st, FALSE, -1, << >>) ELSE
    Bind(GS308EP_httpGet(st, PathOf(ConcatUrl(Host, POE_STATUS_URL_TEMPLATE)), r1),
         LAMBDA g :
      IF g.st.last_response_code # 200 THEN ReturnOut(g.st, FALSE, -1, << g.req >>)
      ELSE ReturnOut(g.st, TRUE,
                     TotalPower(LAMBDA port : GS308EP_powers[g.response][port]),
                     << g.req >>))

\* GS308EP::getAllPoEPortStats: out is the caller's array afterwards
GS308EP_getAllPoEPortStats(st, r1) ==
    IF ~st.authenticated THEN ReturnOut(st, FALSE, "none", << >>) ELSE
    Bind(GS308EP_httpGet(st, PathOf(ConcatUrl(Host, POE_STATUS_URL_TEMPLATE)), r1),
         LAMBDA g :
      IF g.st.last_response_code # 200 THEN ReturnOut(g.st, FALSE, "none", << g.req >>)
      ELSE Bind(GS308EP_allStats[g.response], LAMBDA c :
             ReturnOut(g.st, c.allSuccess, c.stats, << g.req >>)))

----------------------------------------------------------------------------
(* The state machine: a caller invoking the public operations one at a time *)

\* the port numbers callers pass; the library takes them as uint8_t
PortArgs == {-1, 0, 1, 8, 9}

\* the port numbers passed to the reading operations
ReadPortArgs == {0, 1, 2}

uint8_t(n) == n % 256

\* op, port: the operation and its port argument; auth0: isAuthenticated()
\* when the call began; done, ret: whether it returned, and what; offRet,
\* onRet: what the two setPortState calls of cyclePort returned
\* out: what a reading operation reported
NoCall == [op |-> "none", port |-> 0, auth0 |-> FALSE, done |-> TRUE, ret |-> FALSE,
           offRet |-> "none", onRet |-> "none", out |-> "none"]

NothingApplied == [port |-> 0, enabled |-> FALSE]

Init ==
    /\ impl \in {"cli", "lib", "main"}
    /\ ctl = [authenticated |-> FALSE, cookie_sid |-> << >>,
              client_hash |-> << >>, last_response_code |-> 0]
    /\ pc = "idle"
    /\ call = NoCall
    /\ reqs = << >>
    /\ applied = NothingApplied
    /\ xin = << >>
    /\ xout = << >>

Tag(rq, step) ==
    [i \in 1 .. Len(rq) |->
        [step |-> step, method |-> rq[i].method, path |-> rq[i].path,
         body |-> rq[i].body, cookie |-> rq[i].cookie, resp |-> rq[i].resp]]

BoolText(b) == IF b THEN "true" ELSE "false"

\* a login() call from start to return
LoginReturns(res) ==
    /\ ctl' = res.st
    /\ call' = [NoCall EXCEPT !.op = "login", !.auth0 = ctl.authenticated,
                              !.ret = res.ret]
    /\ reqs' = Tag(res.reqs, "login")
    /\ pc' = "idle"
    /\ UNCHANGED <<impl, applied, xin, xout>>

\* a turnOnPort / turnOffPort call from start to return
SetReturns(port, enabled, res) ==
    /\ ctl' = res.st
    /\ call' = [NoCall EXCEPT !.op = IF enabled THEN "turnOn" ELSE "turnOff",
                              !.port = port, !.auth0 = ctl.authenticated,
                              !.ret = res.ret]
    /\ reqs' = Tag(res.reqs, "set")
    /\ applied' = IF res.ret THEN [port |-> port, enabled |-> enabled] ELSE applied
    /\ pc' = "idle"
    /\ UNCHANGED <<impl, xin, xout>>

\* a reading operation from start to return
ReadReturns(op, port, res) ==
    /\ ctl' = res.st
    /\ call' = [NoCall EXCEPT !.op = op, !.port = port, !.auth0 = ctl.authenticated,
                              !.ret = res.ret, !.out = res.out]
    /\ reqs' = Tag(res.reqs, "read")
    /\ pc' = "idle"
    /\ UNCHANGED <<impl, applied, xin, xout>>

\* cyclePort up to its sleep: the off-step, then either the early return or
\* the blocking delay
CycleOffStep_IgnoreResult(port, res) ==
    /\ ctl' = res.st
    /\ call' = [NoCall EXCEPT !.op = "cycle", !.port = port,
                              !.auth0 = ctl.authenticated, !.done = FALSE,
                              !.ret = FALSE, !.offRet = BoolText(res.ret)]
    /\ reqs' = Tag(res.reqs, "off")
    /\ applied' = IF res.ret THEN [port |-> port, enabled |-> FALSE] ELSE applied
    /\ pc' = "cycle_sleep"
    /\ UNCHANGED <<impl, xin, xout>>

CycleOffStep(port, res) ==
    /\ ctl' = res.st
    /\ call' = [NoCall EXCEPT !.op = "cycle", !.port = port,
                              !.auth0 = ctl.authenticated, !.done = ~res.ret,
                              !.ret = FALSE, !.offRet = BoolText(res.ret)]
    /\ reqs' = Tag(res.reqs, "off")
    /\ applied' = IF res.ret THEN [port |-> port, enabled |-> FALSE] ELSE applied
    /\ pc' = IF res.ret THEN "cycle_sleep" ELSE "idle"
    /\ UNCHANGED <<impl, xin, xout>>

\* cyclePort after its sleep: the on-step and the return
CycleOnStep_AlwaysTrue(res) ==
    /\ ctl' = res.st
    /\ call' = [call EXCEPT !.done = TRUE, !.ret = TRUE, !.onRet = BoolText(res.ret)]
    /\ reqs' = reqs \o Tag(res.reqs, "on")
    /\ applied' = IF res.ret THEN [port |-> call.port, enabled |-> TRUE] ELSE applied
    /\ pc' = "idle"
    /\ UNCHANGED <<impl, xin, xout>>

CycleOnStep(res) ==
    /\ ctl' = res.st
    /\ call' = [call EXCEPT !.done = TRUE, !.ret = res.ret, !.onRet = BoolText(res.ret)]
    /\ reqs' = reqs \o Tag(res.reqs, "on")
    /\ applied' = IF res.ret THEN [port |-> call.port, enabled |-> TRUE] ELSE applied
    /\ pc' = "idle"
    /\ UNCHANGED <<impl, xin, xout>>

\* The answers of the transport to the exchanges a call makes: the second
\* answer is drawn only when the call, given the first, issues a second
\* request, and none is drawn for a call that issues no request.
WithAnswers(Op(_, _), R1, R2, Returns(_)) ==
    \E r1 \in (IF Len(Op(FailedExchange, FailedExchange).reqs) >= 1
               THEN R1 ELSE {FailedExchange}) :
      \E r2 \in (IF Len(Op(r1, FailedExchange).reqs) >= 2
                 THEN R2 ELSE {FailedExchange}) :
        \E res \in { Op(r1, r2) } : Returns(res)

Call_CLI_login ==
    /\ impl = "cli" /\ pc = "idle"
    /\ WithAnswers(LAMBDA r1, r2 : CLI_login(ctl, r1, r2),
                   LoginGetResponses, LoginPostResponses, LoginReturns)

Call_CLI_turnOnPort ==
    /\ impl = "cli" /\ pc = "idle"
    /\ \E port \in PortArgs :
          WithAnswers(LAMBDA r1, r2 : CLI_setPortState(ctl, port, TRUE, r1, r2),
                      ConfigGetResponses, ConfigPostResponses,
                      LAMBDA res : SetReturns(port, TRUE, res))

Call_CLI_turnOffPort ==
    /\ impl = "cli" /\ pc = "idle"
    /\ \E port \in PortArgs :
          WithAnswers(LAMBDA r1, r2 : CLI_setPortState(ctl, port, FALSE, r1, r2),
                      ConfigGetResponses, ConfigPostResponses,
                      LAMBDA res : SetReturns(port, FALSE, res))

Call_CLI_cyclePort ==
    /\ impl = "cli" /\ pc = "idle"
    /\ \E port \in PortArgs :
          WithAnswers(LAMBDA r1, r2 : CLI_setPortState(ctl, port, FALSE, r1, r2),
                      ConfigGetResponses, ConfigPostResponses,
                      LAMBDA res : CycleOffStep(port, res))

Resume_CLI_cyclePort ==
    /\ impl = "cli" /\ pc = "cycle_sleep"
    /\ WithAnswers(LAMBDA r1, r2 : CLI_setPortState(ctl, call.port, TRUE, r1, r2),
                   ConfigGetResponses, ConfigPostResponses, CycleOnStep)

Call_CLI_showPortStatus ==
    /\ impl = "cli" /\ pc = "idle"
    /\ \E port \in ReadPortArgs :
          WithAnswers(LAMBDA r1, r2 : CLI_showPortStatus(ctl, port, r1),
                      AnswersTo(POE_STATUS_URL), {FailedExchange},
                      LAMBDA res : ReadReturns("status", port, res))

Call_CLI_showPortPower ==
    /\ impl = "cli" /\ pc = "idle"
    /\ \E port \in ReadPortArgs :
          WithAnswers(LAMBDA r1, r2 : CLI_showPortPower(ctl, port, r1),
                      AnswersTo(POE_STATUS_URL), {FailedExchange},
                      LAMBDA res : ReadReturns("power", port, res))

Call_CLI_showTotalPower ==
    /\ impl = "cli" /\ pc = "idle"
    /\ WithAnswers(LAMBDA r1, r2 : CLI_showTotalPower(ctl, r1),
                   AnswersTo(POE_STATUS_URL), {FailedExchange},
                   LAMBDA res : ReadReturns("total", 0, res))

Call_CLI_showAllStats ==
    /\ impl = "cli" /\ pc = "idle"
    /\ WithAnswers(LAMBDA r1, r2 : CLI_showAllStats(ctl, r1),
                   AnswersTo(POE_STATUS_URL), {FailedExchange},
                   LAMBDA res : ReadReturns("stats", 0, res))

Call_GS308EP_login ==
    /\ impl = "lib" /\ pc = "idle"
    /\ WithAnswers(LAMBDA r1, r2 : GS308EP_login(ctl, r1, r2),
                   LoginGetResponses, LoginPostResponses, LoginReturns)

Call_GS308EP_turnOnPoEPort ==
    /\ impl = "lib" /\ pc = "idle"
    /\ \E port \in PortArgs :
          WithAnswers(LAMBDA r1, r2 :
                        GS308EP_setPoEPortState(ctl, uint8_t(port), TRUE, r1, r2),
                      ConfigGetResponses, ConfigPostResponses,
                      LAMBDA res : SetReturns(uint8_t(port), TRUE, res))

Call_GS308EP_turnOffPoEPort ==
    /\ impl = "lib" /\ pc = "idle"
    /\ \E port \in PortArgs :
          WithAnswers(LAMBDA r1, r2 :
                        GS308EP_setPoEPortState(ctl, uint8_t(port), FALSE, r1, r2),
                      ConfigGetResponses, ConfigPostResponses,
                      LAMBDA res : SetReturns(uint8_t(port), FALSE, res))

Call_GS308EP_cyclePoEPort ==
    /\ impl = "lib" /\ pc = "idle"
    /\ \E port \in PortArgs :
          WithAnswers(LAMBDA r1, r2 :
                        GS308EP_setPoEPortState(ctl, uint8_t(port), FALSE, r1, r2),
                      ConfigGetResponses, ConfigPostResponses,
                      LAMBDA res : CycleOffStep(uint8_t(port), res))

Resume_GS308EP_cyclePoEPort ==
    /\ impl = "lib" /\ pc = "cycle_sleep"
    /\ WithAnswers(LAMBDA r1, r2 : GS308EP_setPoEPortState(ctl, call.port, TRUE, r1, r2),
                   ConfigGetResponses, ConfigPostResponses, CycleOnStep)

Call_GS308EP_getPoEPortStatus ==
    /\ impl = "lib" /\ pc = "idle"
    /\ \E port \in ReadPortArgs :
          WithAnswers(LAMBDA r1, r2 : GS308EP_getPoEPortStatus(ctl, port, r1),
                      AnswersTo(PathOf(snprintf(POE_STATUS_URL_TEMPLATE, Host))),
                      {FailedExchange},
                      LAMBDA res : ReadReturns("status", port, res))

Call_GS308EP_getPoEPortPower ==
    /\ impl = "lib" /\ pc = "idle"
    /\ \E port \in ReadPortArgs :
          WithAnswers(LAMBDA r1, r2 : GS308EP_getPoEPortPower(ctl, port, r1),
                      AnswersTo(PathOf(ConcatUrl(Host, POE_STATUS_URL_TEMPLATE))),
                      {FailedExchange},
                      LAMBDA res : ReadReturns("power", port, res))

Call_GS308EP_getTotalPoEPower ==
    /\ impl = "lib" /\ pc = "idle"
    /\ WithAnswers(LAMBDA r1, r2 : GS308EP_getTotalPoEPower(ctl, r1),
                   AnswersTo(PathOf(ConcatUrl(Host, POE_STATUS_URL_TEMPLATE))),
                   {FailedExchange},
                   LAMBDA res : ReadReturns("total", 0, res))

Call_GS308EP_getAllPoEPortStats ==
    /\ impl = "lib" /\ pc = "idle"
    /\ WithAnswers(LAMBDA r1, r2 : GS308EP_getAllPoEPortStats(ctl, r1),
                   AnswersTo(PathOf(ConcatUrl(Host, POE_STATUS_URL_TEMPLATE))),
                   {FailedExchange},
                   LAMBDA res : ReadReturns("stats", 0, res))

\* The program gs308ep: one run of main with a fresh GS308EP_CLI controller.
\* action is the one action option given ("none": no action option), port
\* the value of --port (-1: not given); exit is the exit code, -1 until
\* the process has exited.
MainActions == {"on", "off", "cycle", "status", "power", "total", "stats"}

PortActions == {"on", "off", "cycle", "status", "power"}

MainPortArgs == {-1, 1, 2, 9}

MainCall(action, port) ==
    [NoCall EXCEPT !.op = "main", !.port = port, !.done = FALSE,
                   !.out = [action |-> action, login |-> FALSE, exit |-> -1]]

\* return 1 before the controller is created
MainRejects(action, port) ==
    /\ call' = [MainCall(action, port) EXCEPT !.done = TRUE, !.out.exit = 1]
    /\ pc' = "exited"
    /\ UNCHANGED <<impl, ctl, reqs, applied, xin, xout>>

\* controller.login(), and return 1 when it fails
MainLogsIn(action, port, res) ==
    /\ ctl' = res.st
    /\ call' = [MainCall(action, port) EXCEPT
                  !.done = ~res.ret, !.out.login = res.ret,
                  !.out.exit = IF res.ret THEN -1 ELSE 1]
    /\ reqs' = Tag(res.reqs, "login")
    /\ pc' = IF res.ret THEN "main_action" ELSE "exited"
    /\ UNCHANGED <<impl, applied, xin, xout>>

\* return success ? 0 : 1
MainExits(res, appliedAfter) ==
    /\ ctl' = res.st
    /\ call' = [call EXCEPT !.done = TRUE, !.ret = res.ret,
                            !.out.exit = IF res.ret THEN 0 ELSE 1]
    /\ reqs' = reqs \o Tag(res.reqs, "action")
    /\ applied' = appliedAfter
    /\ pc' = "exited"
    /\ UNCHANGED <<impl, xin, xout>>

\* GS308EP_CLI::cyclePort as main runs it, the sleep included
CLI_cyclePort(st, port, r1, r2, r3, r4) ==
    Bind(CLI_setPortState(st, port, FALSE, r1, r2), LAMBDA off :
      IF ~off.ret THEN [st |-> off.st, ret |-> FALSE, reqs |-> off.reqs, off |-> FALSE]
      ELSE Bind(CLI_setPortState(off.st, port, TRUE, r3, r4), LAMBDA on :
             [st |-> on.st, ret |-> on.ret, reqs |-> off.reqs \o on.reqs, off |-> TRUE]))

Main_start ==
    /\ impl = "main" /\ pc = "idle" /\ call.op = "none"
    /\ \E action \in MainActions \cup {"none"}, port \in MainPortArgs :
          IF \/ port # -1 /\ (port < 1 \/ port > 8)
             \/ action = "none"
             \/ action \in PortActions /\ port = -1
          THEN MainRejects(action, port)
          ELSE WithAnswers(LAMBDA r1, r2 : CLI_login(ctl, r1, r2),
                           LoginGetResponses, LoginPostResponses,
                           LAMBDA res : MainLogsIn(action, port, res))

Main_turnOnPort ==
    /\ impl = "main" /\ pc = "main_action" /\ call.out.action = "on"
    /\ WithAnswers(LAMBDA r1, r2 : CLI_setPortState(ctl, call.port, TRUE, r1, r2),
                   ConfigGetResponses, ConfigPostResponses,
                   LAMBDA res : MainExits(res, IF res.ret
                                               THEN [port |-> call.port, enabled |-> TRUE]
                                               ELSE applied))

Main_turnOffPort ==
    /\ impl = "main" /\ pc = "main_action" /\ call.out.action = "off"
    /\ WithAnswers(LAMBDA r1, r2 : CLI_setPortState(ctl, call.port, FALSE, r1, r2),
                   ConfigGetResponses, ConfigPostResponses,
                   LAMBDA res : MainExits(res, IF res.ret
                                               THEN [port |-> call.port, enabled |-> FALSE]
                                               ELSE applied))

Main_cyclePort ==
    /\ impl = "main" /\ pc = "main_action" /\ call.out.action = "cycle"
    /\ \E r1, r3 \in ConfigGetResponses, r2, r4 \in ConfigPostResponses :
          \E res \in { CLI_cyclePort(ctl, call.port, r1, r2, r3, r4) } :
              MainExits(res, IF res.ret THEN [port |-> call.port, enabled |-> TRUE]
                             ELSE IF res.off THEN [port |-> call.port, enabled |-> FALSE]
                             ELSE applied)

Main_showPortStatus ==
    /\ impl = "main" /\ pc = "main_action" /\ call.out.action = "status"
    /\ WithAnswers(LAMBDA r1, r2 : CLI_showPortStatus(ctl, call.port, r1),
                   AnswersTo(POE_STATUS_URL), {FailedExchange},
                   LAMBDA res : MainExits(res, applied))

Main_showPortPower ==
    /\ impl = "main" /\ pc = "main_action" /\ call.out.action = "power"
    /\ WithAnswers(LAMBDA r1, r2 : CLI_showPortPower(ctl, call.port, r1),
                   AnswersTo(POE_STATUS_URL), {FailedExchange},
                   LAMBDA res : MainExits(res, applied))

Main_showTotalPower ==
    /\ impl = "main" /\ pc = "main_action" /\ call.out.action = "total"
    /\ WithAnswers(LAMBDA r1, r2 : CLI_showTotalPower(ctl, r1),
                   AnswersTo(POE_STATUS_URL), {FailedExchange},
                   LAMBDA res : MainExits(res, applied))

Main_showAllStats ==
    /\ impl = "main" /\ pc = "main_action" /\ call.out.action = "stats"
    /\ WithAnswers(LAMBDA r1, r2 : CLI_showAllStats(ctl, r1),
                   AnswersTo(POE_STATUS_URL), {FailedExchange},
                   LAMBDA res : MainExits(res, applied))

Next ==
    \/ Call_CLI_login
    \/ Call_CLI_turnOnPort
    \/ Call_CLI_turnOffPort
    \/ Call_CLI_cyclePort
    \/ Resume_CLI_cyclePort
    \/ Call_GS308EP_login
    \/ Call_GS308EP_turnOnPoEPort
    \/ Call_GS308EP_turnOffPoEPort
    \/ Call_GS308EP_cyclePoEPort
    \/ Resume_GS308EP_cyclePoEPort
    \/ Call_CLI_showPortStatus
    \/ Call_CLI_showPortPower
    \/ Call_CLI_showTotalPower
    \/ Call_CLI_showAllStats
    \/ Call_GS308EP_getPoEPortStatus
    \/ Call_GS308EP_getPoEPortPower
    \/ Call_GS308EP_getTotalPoEPower
    \/ Call_GS308EP_getAllPoEPortStats
    \/ Main_start
    \/ Main_turnOnPort
    \/ Main_turnOffPort
    \/ Main_cyclePort
    \/ Main_showPortStatus
    \/ Main_showPortPower
    \/ Main_showTotalPower
    \/ Main_showAllStats

Spec == Init /\ [][Next]_vars

----------------------------------------------------------------------------
(* The scanning functions on their own: Init draws a field and the pages    *)
(* to scan, one action per function scans them                              *)

MaxContentLen == 2
MaxTail == 4

\* the quoting of the id, name and value attributes of one field: all
\* double, all single, and the two mixed forms of the tests and the firmware
Styles ==
    << [id |-> DQ, name |-> DQ, value |-> DQ],
       [id |-> SQ, name |-> SQ, value |-> SQ],
       [id |-> SQ, name |-> DQ, value |-> SQ],
       [id |-> DQ, name |-> DQ, value |-> SQ] >>

FieldText(field) == IF field = "rand" THEN T_rand ELSE T_hash

\* <input id=.rand. name=.rand. value=.content.> in the given quoting
StyledField(field, content, style) ==
    T_input \o Attr(T_id, style.id, FieldText(field)) \o SP
      \o Attr(T_name, style.name, FieldText(field)) \o SP
      \o T_value \o EQ \o style.value \o content \o style.value \o GT

Contents == { c \in { << "7" >>, << "1", "2" >>, << "a", "b", "c" >> } :
                Len(c) <= MaxContentLen }

Before == { << >>, << "<", "p", ">" >> }

\* nothing, a link quoted with ', a link quoted with "
After ==
    { << >>,
      << "<", "a", " ", "h", "r", "e", "f", "=", "'", "x", "'", ">" >>,
      << "<", "a", " ", "h", "r", "e", "f", "=", "\"", "x", "\"", ">" >> }

\* one field content in every quoting, inside the same surrounding HTML
StyledInputs ==
    { [kind |-> "styled", field |-> f,
       pages |-> [ i \in DOMAIN Styles |-> b \o StyledField(f, c, Styles[i]) \o a ]] :
        f \in {"rand", "hash"}, c \in Contents, b \in Before, a \in After }

\* what may follow the marker in a damaged page
TailTokens == { T_value, DQ, SQ, << "x" >> }

RECURSIVE Tails(_)
Tails(n) ==
    IF n = 0 THEN { << >> }
    ELSE Tails(n - 1) \cup
           { t \o k : t \in Tails(n - 1), k \in TailTokens }

\* damaged pages: no marker, or the marker in either quoting, then up to
\* MaxTail tokens
PageInputs ==
    UNION { { [kind |-> "page", field |-> f, pages |-> << m \o t >>] :
                m \in { << >>, Attr(T_name, DQ, FieldText(f)),
                        Attr(T_name, SQ, FieldText(f)) },
                t \in Tails(MaxTail) } :
            f \in {"rand", "hash"} }

MaxHeaderTail == 3

\* what may follow SID= in a header block
HeaderTokens == { << "a" >>, SEMI, CR, LF }

RECURSIVE HeaderTails(_)
HeaderTails(n) ==
    IF n = 0 THEN { << >> }
    ELSE HeaderTails(n - 1) \cup
           { t \o k : t \in HeaderTails(n - 1), k \in HeaderTokens }

\* header blocks: with or without the header name, with or without SID=,
\* then up to MaxHeaderTail tokens
HeaderInputs ==
    { [kind |-> "headers", field |-> "cookie", pages |-> << p \o s \o t >>] :
        p \in { << >>, T_SetCookie \o SP },
        s \in { << >>, T_SID },
        t \in HeaderTails(MaxHeaderTail) }

\* n blanks
\* distance of the fields from the anchor: next to it, beyond 1000
\* characters, beyond 2000 characters
Gaps == {0, 1500, 2100}

PowerTexts == { << "5" >>, << " ", "7" >>, << "-", "3" >>, << "x" >>, << >> }

\* pages holding the block of port 1, scanned for port 1 and for port 2
StatusInputs ==
    { [kind |-> "status", field |-> f, port |-> p, gap |-> g,
       voltage |-> v, fault |-> u, power |-> w,
       pages |-> << PortBlock(1, g, v, u, w) >>] :
        f \in {"power", "stats"}, p \in {1, 2}, g \in Gaps,
        v \in FieldShapes({ << "4" >>, << "x" >> }) \ { [is |-> "open", text |-> << "5" >>] },
        u \in { [is |-> "absent", text |-> << >>],
                [is |-> "span", text |-> << "o", "k" >>] },
        w \in FieldShapes(PowerTexts) }

\* the ports a snapshot may hold a block of
SnapshotPorts == {1, 3, 8}

\* a snapshot: the blocks of some ports in ascending order, each with its
\* power span (the port number, or a text that is no number)
Snapshot(ports, power) ==
    LET Block(p) == IF p \in ports
                    THEN PortBlock(p, 0, [is |-> "absent", text |-> << >>],
                                   [is |-> "absent", text |-> << >>],
                                   [is |-> "span", text |-> power[p]])
                    ELSE << >>
    IN  Block(1) \o Block(3) \o Block(8)

SnapshotInputs ==
    { [kind |-> "snapshot", field |-> f, ports |-> S,
       pages |-> << Snapshot(S, w) >>] :
        f \in {"all", "totals"}, S \in SUBSET SnapshotPorts,
        w \in { [ p \in SnapshotPorts |-> to_string(p) ],
                [ p \in SnapshotPorts |-> IF p = 3 THEN << "x" >> ELSE to_string(p) ] } }

\* poe-power-mode"><span>text</span>, nothing when the label is absent
StatusLabel(shape) ==
    IF shape.is = "absent" THEN << >>
    ELSE T_poe_power_mode \o DQ \o GT \o Span(shape.text)

\* powClassShow">text</span>, nothing when the label is absent
ClassLabel(shape) ==
    IF shape.is = "absent" THEN << >>
    ELSE T_powClassShow \o DQ \o GT \o shape.text \o T_spanEnd

Absent == [is |-> "absent", text |-> << >>]

StatusTexts == { T_Delivering, << "O", "f", "f" >> }

\* class texts: decodable, without a second @, the bare token, plain text
ClassTexts ==
    { << "m", "l", "0", "0", "3", "@", "3", "@" >>, << "m", "l", "0", "0", "3", "@", "3", "x" >>, << "m", "l", "0", "0", "3", "@" >>, << "m", "l", "0", "0", "3", "@", "1", "2", "@", "x" >>,
      << "4" >> }

\* how far the first pair of labels lies before the second: next to it, or
\* more than 500 characters before the anchor
BackwardGaps == {0, 600}

\* pages in which status and class labels occur twice before the anchor of
\* port 1: a first pair, gap blanks, a second pair, the anchor
BackwardInputs ==
    { [kind |-> "backward", field |-> "stats", port |-> 1, gap |-> g,
       status1 |-> s1, class1 |-> c1, status2 |-> s2, class2 |-> c2,
       pages |-> << StatusLabel(s1) \o ClassLabel(c1) \o Filler(g)
                      \o StatusLabel(s2) \o ClassLabel(c2) \o PortAnchor(1) >>] :
        g \in BackwardGaps,
        s1 \in {Absent} \cup { [is |-> "span", text |-> x] : x \in StatusTexts },
        s2 \in {Absent} \cup { [is |-> "span", text |-> x] : x \in StatusTexts },
        c1 \in {Absent, [is |-> "span", text |-> << "4" >>]},
        c2 \in {Absent} \cup { [is |-> "span", text |-> x] : x \in ClassTexts } }

\* snapshots of two ports, the block of port 1 directly followed by the
\* block of port 3, each with or without its voltage and its power
TwoPortInputs ==
    { [kind |-> "twoports", field |-> f, port |-> p,
       voltage |-> v, power |-> w,
       pages |-> << PortBlock(1, 0, v[1], Absent, w[1])
                      \o PortBlock(3, 0, v[3], Absent, w[3]) >>] :
        f \in {"power", "stats"}, p \in {1, 3},
        v \in [ {1, 3} -> {Absent, [is |-> "span", text |-> << "4" >>]} ],
        w \in [ {1, 3} -> {Absent, [is |-> "span", text |-> << "5" >>]} ] }

ExtractInputs ==
    StyledInputs \cup PageInputs \cup HeaderInputs \cup StatusInputs \cup SnapshotInputs
      \cup BackwardInputs \cup TwoPortInputs

InitExtract ==
    /\ impl \in {"cli", "lib", "test"}
    /\ ctl = [authenticated |-> FALSE, cookie_sid |-> << >>,
              client_hash |-> << >>, last_response_code |-> 0]
    /\ pc = "parse"
    /\ call = NoCall
    /\ reqs = << >>
    /\ applied = NothingApplied
    /\ xin \in ExtractInputs
    /\ xout = << >>

\* the result of a function that returns the value: "" is its not-found
Returned(value) == [found |-> value # << >>, value |-> value]

\* the result of a function that returns bool and assigns the hash member:
\* the return value and the member afterwards
Assigned(r) == [found |-> r.found /\ r.value # << >>, value |-> r.value]

Run_CLI_extractRand ==
    /\ pc = "parse"
    /\ impl = "cli"
    /\ xin.field = "rand"
    /\ xout' = [ i \in DOMAIN xin.pages |-> Returned(CLI_extractRand(xin.pages[i])) ]
    /\ pc' = "parsed"
    /\ UNCHANGED <<impl, ctl, call, reqs, applied, xin>>

Run_CLI_extractClientHash ==
    /\ pc = "parse"
    /\ impl = "cli"
    /\ xin.field = "hash"
    /\ xout' = [ i \in DOMAIN xin.pages |-> Assigned(CLI_extractClientHash(xin.pages[i])) ]
    /\ pc' = "parsed"
    /\ UNCHANGED <<impl, ctl, call, reqs, applied, xin>>

Run_GS308EP_extractRand ==
    /\ pc = "parse"
    /\ impl = "lib"
    /\ xin.field = "rand"
    /\ xout' = [ i \in DOMAIN xin.pages |-> Returned(GS308EP_extractRand(xin.pages[i])) ]
    /\ pc' = "parsed"
    /\ UNCHANGED <<impl, ctl, call, reqs, applied, xin>>

Run_GS308EP_extractClientHash ==
    /\ pc = "parse"
    /\ impl = "lib"
    /\ xin.field = "hash"
    /\ xout' = [ i \in DOMAIN xin.pages |-> Assigned(GS308EP_extractClientHash(xin.pages[i])) ]
    /\ pc' = "parsed"
    /\ UNCHANGED <<impl, ctl, call, reqs, applied, xin>>

Run_CLI_extractCookie ==
    /\ pc = "parse"
    /\ impl = "cli"
    /\ xin.field = "cookie"
    /\ xout' = [ i \in DOMAIN xin.pages |-> Returned(CLI_extractCookie(xin.pages[i])) ]
    /\ pc' = "parsed"
    /\ UNCHANGED <<impl, ctl, call, reqs, applied, xin>>

Run_GS308EP_extractCookie ==
    /\ pc = "parse"
    /\ impl = "lib"
    /\ xin.field = "cookie"
    /\ xout' = [ i \in DOMAIN xin.pages |-> Assigned(GS308EP_extractCookie(xin.pages[i])) ]
    /\ pc' = "parsed"
    /\ UNCHANGED <<impl, ctl, call, reqs, applied, xin>>

Run_CLI_extractPortPower ==
    /\ pc = "parse"
    /\ impl = "cli"
    /\ xin.field = "power"
    /\ xout' = [ i \in DOMAIN xin.pages |-> CLI_extractPortPower(xin.pages[i], xin.port) ]
    /\ pc' = "parsed"
    /\ UNCHANGED <<impl, ctl, call, reqs, applied, xin>>

Run_GS308EP_extractPortPower ==
    /\ pc = "parse"
    /\ impl = "lib"
    /\ xin.field = "power"
    /\ xout' = [ i \in DOMAIN xin.pages |-> GS308EP_extractPortPower(xin.pages[i], xin.port) ]
    /\ pc' = "parsed"
    /\ UNCHANGED <<impl, ctl, call, reqs, applied, xin>>

Run_CLI_extractPortStats ==
    /\ pc = "parse"
    /\ impl = "cli"
    /\ xin.field = "stats"
    /\ xout' = [ i \in DOMAIN xin.pages |-> CLI_extractPortStats(xin.pages[i], xin.port) ]
    /\ pc' = "parsed"
    /\ UNCHANGED <<impl, ctl, call, reqs, applied, xin>>

Run_GS308EP_extractPortStats ==
    /\ pc = "parse"
    /\ impl = "lib"
    /\ xin.field = "stats"
    /\ xout' = [ i \in DOMAIN xin.pages |-> GS308EP_extractPortStats(xin.pages[i], xin.port) ]
    /\ pc' = "parsed"
    /\ UNCHANGED <<impl, ctl, call, reqs, applied, xin>>

\* the loop of showAllStats and what outputAllStats makes of its result
Run_CLI_collectStats ==
    /\ pc = "parse"
    /\ impl = "cli"
    /\ xin.field = "all"
    /\ xout' = [ i \in DOMAIN xin.pages |->
                   AllStatsOutput(CLI_collectStats(xin.pages[i], 1)) ]
    /\ pc' = "parsed"
    /\ UNCHANGED <<impl, ctl, call, reqs, applied, xin>>

\* the loop of getAllPoEPortStats: the caller's array and the return value
Run_GS308EP_collectStats ==
    /\ pc = "parse"
    /\ impl = "lib"
    /\ xin.field = "all"
    /\ xout' = [ i \in DOMAIN xin.pages |-> GS308EP_collectStats(xin.pages[i]) ]
    /\ pc' = "parsed"
    /\ UNCHANGED <<impl, ctl, call, reqs, applied, xin>>

\* both totals of one snapshot: the one printed with the statistics of all
\* ports and the one of showTotalPower
Run_CLI_totals ==
    /\ pc = "parse"
    /\ impl = "cli"
    /\ xin.field = "totals"
    /\ xout' = [ i \in DOMAIN xin.pages |->
                   [stats |-> AllStatsOutput(CLI_collectStats(xin.pages[i], 1)).total,
                    total |-> TotalPower(LAMBDA port :
                                CLI_extractPortPower(xin.pages[i], port))] ]
    /\ pc' = "parsed"
    /\ UNCHANGED <<impl, ctl, call, reqs, applied, xin>>

\* the sum of the power fields getAllPoEPortStats fills in and the result of
\* getTotalPoEPower
Run_GS308EP_totals ==
    /\ pc = "parse"
    /\ impl = "lib"
    /\ xin.field = "totals"
    /\ xout' = [ i \in DOMAIN xin.pages |->
                   [stats |-> AllStatsOutput(GS308EP_collectStats(xin.pages[i]).stats).total,
                    total |-> TotalPower(LAMBDA port :
                                GS308EP_extractPortPower(xin.pages[i], port))] ]
    /\ pc' = "parsed"
    /\ UNCHANGED <<impl, ctl, call, reqs, applied, xin>>

\* The unit tests run the functions of GS308EP_test.h in place of those of
\* GS308EP.cpp: both are applied to the same text
Test_extractRand ==
    /\ pc = "parse"
    /\ impl = "test"
    /\ xin.field = "rand"
    /\ xout' = [ i \in DOMAIN xin.pages |->
                   [test |-> Returned(GS308EPTest_extractRand(xin.pages[i])),
                    shipped |-> Returned(GS308EP_extractRand(xin.pages[i]))] ]
    /\ pc' = "compared"
    /\ UNCHANGED <<impl, ctl, call, reqs, applied, xin>>

Test_extractCookie ==
    /\ pc = "parse"
    /\ impl = "test"
    /\ xin.field = "cookie"
    /\ xout' = [ i \in DOMAIN xin.pages |->
                   [test |-> Assigned(GS308EPTest_extractCookie(xin.pages[i])),
                    shipped |-> Assigned(GS308EP_extractCookie(xin.pages[i]))] ]
    /\ pc' = "compared"
    /\ UNCHANGED <<impl, ctl, call, reqs, applied, xin>>

Test_extractPortPower ==
    /\ pc = "parse"
    /\ impl = "test"
    /\ xin.field = "power"
    /\ xout' = [ i \in DOMAIN xin.pages |->
                   [test |-> GS308EPTest_extractPortPower(xin.pages[i], xin.port),
                    shipped |-> Value(GS308EP_extractPortPower(xin.pages[i], xin.port))] ]
    /\ pc' = "compared"
    /\ UNCHANGED <<impl, ctl, call, reqs, applied, xin>>

NextExtract ==
    \/ Run_CLI_extractRand
    \/ Run_CLI_extractClientHash
    \/ Run_GS308EP_extractRand
    \/ Run_GS308EP_extractClientHash
    \/ Run_CLI_extractCookie
    \/ Run_GS308EP_extractCookie
    \/ Run_CLI_extractPortPower
    \/ Run_GS308EP_extractPortPower
    \/ Run_CLI_extractPortStats
    \/ Run_GS308EP_extractPortStats
    \/ Run_CLI_collectStats
    \/ Run_GS308EP_collectStats
    \/ Run_CLI_totals
    \/ Run_GS308EP_totals
    \/ Test_extractRand
    \/ Test_extractCookie
    \/ Test_extractPortPower

SpecExtract == InitExtract /\ [][NextExtract]_vars

----------------------------------------------------------------------------
(* Properties of the session and of the mutating calls                      *)

SetOps == {"turnOn", "turnOff"}

IsGet(r, path) == r.method = "GET" /\ r.path = path

IsPost(r, path) == r.method = "POST" /\ r.path = path

\* the response carries a Set-Cookie header with a non-empty SID
CarriesSID(resp) == resp.ok /\ resp.headers \in {HdrSidA, HdrSidB}

\* the value of the hash field of each page the switch serves
HashOfPage(page) ==
    IF page = ConfigPageHash1 THEN << "h", "1" >>
    ELSE IF page = ConfigPageHash2 THEN << "h", "2" >>
    ELSE << >>

\* C1: after a login() that returned failure the controller is
\* unauthenticated, whatever happened before
C1_FailedLoginUnauthenticated ==
    (call.op = "login" /\ ~call.ret) => ~ctl.authenticated

\* C2: login() returns success exactly when the response to its own POST
\* /login.cgi carries an SID cookie, whatever the status of that POST
C2_LoginIffPostCookie ==
    call.op = "login" =>
      (call.ret <=> (Len(reqs) = 2 /\ IsPost(reqs[2], LOGIN_URL)
                       /\ CarriesSID(reqs[2].resp)))

\* C3: a login page (status 200) without a rand field does not fail the
\* login: the POST goes out with password=MD5(password); with a rand field
\* the body is password=MD5(password + rand)
C3_NoRandFallsBack ==
    (call.op = "login" /\ Len(reqs) >= 1 /\ reqs[1].resp.ok
       /\ reqs[1].resp.code = 200) =>
      /\ Len(reqs) = 2
      /\ IsPost(reqs[2], LOGIN_URL)
      /\ reqs[2].body =
           IF reqs[1].resp.body = LoginPageRand
           THEN T_password \o md5Hash(Password \o << "1", "7" >>)
           ELSE T_password \o md5Hash(Password)

\* C4: setPortState on a port outside 1..8, or on an unauthenticated
\* controller, returns failure and issues no request at all
C4_RejectedWithoutRequest ==
    (call.op \in SetOps \cup {"cycle"}
       /\ (call.port < 1 \/ call.port > 8 \/ ~call.auth0)) =>
      (call.done /\ ~call.ret /\ reqs = << >>)

C4_Witness ==
    /\ call.op = "turnOn" /\ call.port = 9 /\ call.auth0
    /\ ~call.ret /\ reqs = << >>

\* C5: every POST /PoEPortConfig.cgi directly follows a GET /PoEPortConfig.cgi
\* of the same setPortState call, and its hash field is the value of the
\* hash field of the page that GET returned
C5_FreshToken ==
    \A i \in 1 .. Len(reqs) :
      IsPost(reqs[i], POE_CONFIG_URL) =>
        /\ i > 1
        /\ IsGet(reqs[i - 1], POE_CONFIG_URL)
        /\ reqs[i - 1].step = reqs[i].step
        /\ HashOfPage(reqs[i - 1].resp.body) # << >>
        /\ \E enabled \in BOOLEAN :
             reqs[i].body =
               PortConfigBody(call.port, enabled, HashOfPage(reqs[i - 1].resp.body))

C5_Witness ==
    /\ Len(reqs) = 4
    /\ reqs[1].resp.body = ConfigPageHash1
    /\ reqs[3].resp.body = ConfigPageHash2
    /\ IsPost(reqs[4], POE_CONFIG_URL)

Status200(r) == r.resp.ok /\ r.resp.code = 200

C7_OffFailureStops ==
    (call.op = "cycle" /\ call.offRet = "false") =>
      /\ call.done /\ ~call.ret /\ pc = "idle"
      /\ call.onRet = "none"
      /\ \A i \in 1 .. Len(reqs) : reqs[i].step = "off"

C7_Witness ==
    /\ call.op = "cycle" /\ call.offRet = "false" /\ call.auth0
    /\ Len(reqs) = 2 /\ call.done

\* C8: when the off-step succeeds the on-step follows the delay and
\* cyclePort returns the on-step's result; a failed on-step is followed by
\* no further request and leaves "off" as the last applied state
C8_OnStepDecides ==
    (call.op = "cycle" /\ call.offRet = "true") =>
      /\ pc = "cycle_sleep" =>
           (~call.done /\ Len(reqs) = 2 /\ \A i \in 1 .. 2 : reqs[i].step = "off")
      /\ call.done =>
           /\ call.onRet # "none"
           /\ call.ret = (call.onRet = "true")
           /\ Len(reqs) \in 3 .. 4
           /\ \A i \in 3 .. Len(reqs) : reqs[i].step = "on"
           /\ IsGet(reqs[3], POE_CONFIG_URL)
           /\ (Len(reqs) = 4 =>
                 reqs[4].body = PortConfigBody(call.port, TRUE,
                                               HashOfPage(reqs[3].resp.body)))
           /\ (call.onRet = "false" =>
                 applied = [port |-> call.port, enabled |-> FALSE])

C8_Witness ==
    /\ call.op = "cycle" /\ call.offRet = "true" /\ call.done
    /\ call.onRet = "false" /\ Len(reqs) = 4
    /\ applied = [port |-> call.port, enabled |-> FALSE]

----------------------------------------------------------------------------
(* Properties of the scanning functions                                     *)

\* C9: for a fixed field content the extraction returns the same value in
\* every quoting of the field (double, single, mixed), whatever HTML
\* surrounds the field, quote characters of the other style included
C9_SameValueInEveryQuoting ==
    (pc = "parsed" /\ xin.kind = "styled") =>
      \A i, j \in DOMAIN xout : xout[i] = xout[j]

\* where the scan of section 4.1 stops on a page: at the marker, at the
\* value token, at the opening quote, at the closing quote, or nowhere
ScanStops(html, field) ==
    LET dm == Find(html, Attr(T_name, DQ, FieldText(field)), 0)
        sm == Find(html, Attr(T_name, SQ, FieldText(field)), 0)
        m  == IF dm # -1 THEN dm ELSE sm
        v  == Find(html, T_value, m)
        dq == Find(html, DQ, v)
        sq == Find(html, SQ, v)
        o  == IF dq # -1 /\ (sq = -1 \/ dq < sq) THEN dq ELSE sq
    IN  IF m = -1 THEN "marker"
        ELSE IF v = -1 THEN "value"
        ELSE IF o = -1 THEN "opening"
        ELSE IF Find(html, << html[o + 1] >>, o + 1) = -1 THEN "closing"
        ELSE "nowhere"

\* C10: the extraction returns not-found when the marker is absent, when no
\* value token follows the marker, when no quote follows the value token, and
\* when the opening quote is never closed by the same character
C10_NotFoundCases ==
    (pc = "parsed" /\ xin.kind = "page") =>
      \A i \in DOMAIN xout :
        ScanStops(xin.pages[i], xin.field) # "nowhere" => ~xout[i].found


\* the first offset at or after from that holds ; CR or LF, the length of
\* the text when there is none
RECURSIVE FirstTerminator(_, _)
FirstTerminator(headers, from) ==
    IF from >= Len(headers) THEN Len(headers)
    ELSE IF << headers[from + 1] >> \in {SEMI, CR, LF} THEN from
    ELSE FirstTerminator(headers, from + 1)

\* C11: cookie extraction returns the text after the first SID= up to the
\* first of ; CR LF or the end of the input, so the value holds none of
\* these characters and a header without terminator yields the rest of it
C11_CookieUpToFirstTerminator ==
    (pc = "parsed" /\ xin.kind = "headers") =>
      \A i \in DOMAIN xout :
        LET headers == xin.pages[i]
            pos     == Find(headers, T_SID, 0)
        IN  /\ pos # -1 =>
                 xout[i].value =
                   Substr(headers, pos + 4, FirstTerminator(headers, pos + 4) - (pos + 4))
            /\ \A k \in 1 .. Len(xout[i].value) :
                 << xout[i].value[k] >> \notin {SEMI, CR, LF}


----------------------------------------------------------------------------
(* Properties of the status page scanning                                   *)

\* a forward field of the page cannot be read: the label or its span is
\* missing, the span is not closed, the label lies beyond the 2000-character
\* window, or the text holds no number
Unreadable(shape, gap) ==
    \/ shape.is \in {"absent", "bare", "open"}
    \/ gap > 2000

NoNumber(shape) == shape.is = "span" /\ shape.text \in { << "x" >>, << >> }

\* the number written in a span text of the pages
NumberOf(text) ==
    CASE text = << "5" >>      -> 5
      [] text = << "4" >>      -> 4
      [] text = << " ", "7" >> -> 7
      [] text = << "-", "3" >> -> -3
      [] OTHER                 -> 0

\* C12: getPortPower returns -1 when the port anchor is absent, when the
\* label ml574 is absent or beyond the 2000-character window, when the span
\* is missing or unclosed, and when its text is no number
C12_PowerSentinel ==
    (pc = "parsed" /\ xin.kind = "status" /\ xin.field = "power") =>
      ((xin.port # 1 \/ Unreadable(xin.power, xin.gap) \/ NoNumber(xin.power))
         => xout[1] = -1)

C14_FieldDefaults ==
    (pc = "parsed" /\ xin.kind = "status" /\ xin.field = "stats" /\ xin.port = 1) =>
      LET s == xout[1].stats
      IN  /\ s.power =
               IF Unreadable(xin.power, xin.gap) \/ NoNumber(xin.power) THEN 0
               ELSE NumberOf(xin.power.text)
          /\ s.voltage =
               IF Unreadable(xin.voltage, xin.gap) \/ NoNumber(xin.voltage) THEN 0
               ELSE NumberOf(xin.voltage.text)
          /\ s.fault =
               IF Unreadable(xin.fault, xin.gap) THEN T_Unknown ELSE xin.fault.text
          /\ s.current = 0
          /\ s.temperature = 0

----------------------------------------------------------------------------
(* Properties: C15 *)

\* the ports of a snapshot whose anchor value="<port>" is present, ascending
RECURSIVE AnchoredFrom(_, _)
AnchoredFrom(html, from) ==
    IF from > 8 THEN << >>
    ELSE (IF Find(html, PortMarker(from), 0) # -1 THEN << from >> ELSE << >>)
           \o AnchoredFrom(html, from + 1)

\* C15: the statistics of all ports read from one snapshot are exactly one
\* record per port of 1..8 whose anchor is present, in ascending port order,
\* none for a port whose anchor is absent, and the printed total is the sum
\* of the power fields of these records.
C15_OneRecordPerAnchoredPort ==
    (pc = "parsed" /\ xin.field = "all") =>
        \A i \in DOMAIN xin.pages :
            /\ Len(xout[i].stats) <= 8
            /\ [ k \in DOMAIN xout[i].stats |-> xout[i].stats[k].port ]
                  = AnchoredFrom(xin.pages[i], 1)
            /\ impl = "cli" =>
                  xout[i].total = Sum([ k \in DOMAIN xout[i].stats |->
                                          xout[i].stats[k].power ])
----------------------------------------------------------------------------
(* Properties: C16 - C20 *)

ReadOps == {"status", "power", "total", "stats"}

\* C16: every operation that reads the port status, the port power, the
\* total power or the statistics of all ports requests the one URL
\* http://<host>/getPoePortStatus.cgi.
C16_ReadsRequestStatusUrl ==
    (pc = "idle" /\ call.op \in ReadOps) =>
        \A i \in DOMAIN reqs : IsGet(reqs[i], POE_STATUS_URL)

\* the requests the step just taken has sent
NewRequests ==
    IF pc = "cycle_sleep" THEN SubSeq(reqs', Len(reqs) + 1, Len(reqs')) ELSE reqs'

\* C17: every request of a call made on an authenticated controller, that
\* is, after a successful login, carries the header Cookie: SID=<token> with
\* the token of the session.
C17_RequestsCarrySessionCookie ==
    [][ (ctl.authenticated /\ call'.op # "login") =>
          \A i \in DOMAIN NewRequests :
              /\ NewRequests[i].cookie # << >>
              /\ NewRequests[i].cookie = CookieHeader(ctl.cookie_sid) ]_vars

\* C18: a call of turn on / turn off / cycle / port status / port power /
\* total power / all statistics made while the controller is unauthenticated
\* issues no HTTP request.
C18_NoRequestBeforeLogin ==
    (call.op \in SetOps \cup {"cycle"} \cup ReadOps /\ ~call.auth0) => reqs = << >>

Count(method) == Cardinality({ i \in DOMAIN reqs : reqs[i].method = method })

\* C19: within one call login() issues at most one GET and one POST, a
\* turn on / turn off at most one GET and one POST, cyclePort at most two of
\* each, and a call in which an exchange failed at transport level returns
\* failure.
C19_TransportFailureIsFatal ==
    /\ call.op \in {"login"} \cup SetOps => Count("GET") <= 1 /\ Count("POST") <= 1
    /\ call.op = "cycle" => Count("GET") <= 2 /\ Count("POST") <= 2
    /\ (call.op \in {"login", "cycle"} \cup SetOps \cup ReadOps /\ call.done
          /\ \E i \in DOMAIN reqs : ~reqs[i].resp.ok)
          => ~call.ret

\* the status query of the run found its page and its port
StatusQuerySucceeded ==
    \E i \in DOMAIN reqs :
        /\ reqs[i].step = "action"
        /\ IsGet(reqs[i], POE_STATUS_URL)
        /\ Status200(reqs[i])
        /\ Find(reqs[i].resp.body, PortMarker(call.port), 0) # -1

\* C20: the process exits with 0 exactly when the login and the selected
\* operation succeeded, with 1 otherwise; a status query whose page fetch
\* or port lookup failed does not exit with 0.
C20_ExitCode ==
    (impl = "main" /\ pc = "exited") =>
        /\ call.out.exit \in {0, 1}
        /\ call.out.exit = 0 <=> (call.out.login /\ call.ret)
        /\ (call.out.action = "status" /\ call.out.exit = 0) => StatusQuerySucceeded

----------------------------------------------------------------------------
(* Properties: C22 - C24 *)

\* C22: when the GET of /login.cgi fails at transport level or returns a
\* status other than 200, login() returns failure and issues no POST.
C22_NoPostAfterFailedLoginGet ==
    (call.op = "login" /\ reqs # << >> /\ ~Status200(reqs[1])) =>
        /\ ~call.ret
        /\ Len(reqs) = 1

C22_Witness ==
    /\ call.op = "login" /\ Len(reqs) = 1 /\ ~call.ret
    /\ IsGet(reqs[1], LOGIN_URL)
    /\ reqs[1].resp.ok /\ reqs[1].resp.code = 500

\* the page of the GET carries no usable hash
NoFreshHash(r) == ~Status200(r) \/ HashOfPage(r.resp.body) = << >>

ExpectedBody(p, enabled, token) ==
    << "A", "C", "T", "I", "O", "N", "=", "A", "p", "p", "l", "y", "&", "p", "o", "r", "t", "I", "D", "=" >>
      \o << Digits[p] >>
      \o << "&", "A", "D", "M", "I", "N", "_", "M", "O", "D", "E", "=" >>
      \o (IF enabled THEN << "1" >> ELSE << "0" >>)
      \o << "&", "P", "O", "R", "T", "_", "P", "R", "I", "O", "=", "0", "&", "P", "O", "W", "_", "M", "O", "D", "=", "3", "&", "P", "O", "W", "_", "L", "I", "M", "T", "_", "T", "Y", "P", "=", "0", "&", "D", "E", "T", "E", "C", "_", "T", "Y", "P", "=", "2", "&", "D", "I", "S", "C", "O", "N", "N", "E", "C", "T", "_", "T", "Y", "P", "=", "2", "&", "h", "a", "s", "h", "=" >>
      \o token

\* C24: the body of the mutation POST for port p of 1..8 is exactly
\* ACTION=Apply&portID=<p-1>&ADMIN_MODE=<1|0>&PORT_PRIO=0&POW_MOD=3&
\* POW_LIMT_TYP=0&DETEC_TYP=2&DISCONNECT_TYP=2&hash=<token>, the token being
\* the hash of the page just fetched.
C24_MutationBody ==
    (call.op \in SetOps /\ Len(reqs) = 2) =>
        /\ call.port \in 1 .. 8
        /\ IsPost(reqs[2], POE_CONFIG_URL)
        /\ reqs[2].body = ExpectedBody(call.port, call.op = "turnOn",
                                       HashOfPage(reqs[1].resp.body))
        /\ \A p \in 1 .. 8, enabled \in BOOLEAN :
              PortConfigBody(p, enabled, ctl.client_hash)
                = ExpectedBody(p, enabled, ctl.client_hash)

C24_Witness ==
    /\ call.op = "turnOff" /\ Len(reqs) = 2 /\ call.port = 8
    /\ reqs[2].body[Len(T_ACTION \o T_portID) + 1] = "7"

----------------------------------------------------------------------------
(* Properties: C28 *)

\* C28: in every reachable state, isAuthenticated() being true implies that
\* the stored session cookie is not empty.
C28_AuthenticatedHasCookie ==
    ctl.authenticated => ctl.cookie_sid # << >>

----------------------------------------------------------------------------
(* Properties: C25 - C27 *)

\* the text between the quote character at the lower offset after the value
\* token of the field and the next occurrence of that same character
DelimitedValue(html, field) ==
    LET dm == Find(html, Attr(T_name, DQ, FieldText(field)), 0)
        sm == Find(html, Attr(T_name, SQ, FieldText(field)), 0)
        m  == IF dm # -1 THEN dm ELSE sm
        v  == Find(html, T_value, m)
        dq == Find(html, DQ, v)
        sq == Find(html, SQ, v)
        o  == IF dq # -1 /\ (sq = -1 \/ dq < sq) THEN dq ELSE sq
    IN  Substring(html, o + 1, Find(html, << html[o + 1] >>, o + 1))

\* C25: the value of a hidden field starts after the quote character, " or
\* ', that comes first after the value token and ends at the next occurrence
\* of that same character; a quote of the other kind inside the value or
\* later in the document neither starts nor ends it.
C25_NearerQuoteDelimits ==
    (pc = "parsed" /\ xin.kind \in {"styled", "page"}) =>
      \A i \in DOMAIN xout :
        (xout[i].found /\ ScanStops(xin.pages[i], xin.field) = "nowhere") =>
            xout[i].value = DelimitedValue(xin.pages[i], xin.field)

\* the label a backward lookup has to read: the second one when present,
\* else the first one when it lies inside the window
NearestLabel(first, second, gap) ==
    IF second.is # "absent" THEN second
    ELSE IF gap = 0 THEN first
    ELSE Absent

DecodedClass(raw) ==
    LET second == { i \in 7 .. Len(raw) : raw[i] = "@" }
    IN  IF Len(raw) >= 6 /\ SubSeq(raw, 1, 6) = << "m", "l", "0", "0", "3", "@" >> /\ second # { }
        THEN << "C", "l", "a", "s", "s", " " >>
               \o SubSeq(raw, 7, (CHOOSE i \in second : \A j \in second : i <= j) - 1)
        ELSE raw

\* C27: a class text that starts with ml003@ and has a second @ is shown as
\* "Class " and the text between the two @; every other class text, one
\* that starts with ml003@ without a second @ included, is shown verbatim.
C27_PowerClassDecoding ==
    (pc = "parsed" /\ xin.kind = "backward" /\ xin.class2.is = "span") =>
        xout[1].stats.powerClass = DecodedClass(xin.class2.text)

----------------------------------------------------------------------------
(* Properties: C29 - C30 *)

\* C29: in a snapshot of several ports the forward values of port p come
\* from p's own block: a label missing there leaves the field at its default
\* (-1 for getPortPower), whatever the block of the following port holds.
C29_ValuesFromOwnBlock ==
    (pc = "parsed" /\ xin.kind = "twoports") =>
      IF xin.field = "power"
      THEN xout[1] = IF xin.power[xin.port].is = "absent" THEN -1 ELSE 5
      ELSE /\ xout[1].ok
           /\ xout[1].stats.voltage =
                 IF xin.voltage[xin.port].is = "absent" THEN 0 ELSE 4
           /\ xin.power[xin.port].is = "span" => xout[1].stats.power = 5

\* C30: for one snapshot the total of the all-port statistics (the sum of
\* the power fields of the records) equals the total of the total-power
\* operation (the sum of the non-negative port powers), also when a port has
\* its anchor but no readable power.
C30_TotalsAgree ==
    (pc = "parsed" /\ xin.field = "totals") => xout[1].stats = xout[1].total


(***************************************************************************)
(* C21                                                                     *)
(***************************************************************************)
\* C21: the parsing functions the unit tests exercise return, for every
\* input, what the shipped functions they stand in for return: whenever a
\* function of GS308EP_test.h and its counterpart of GS308EP.cpp have been
\* applied to the same texts, their results are equal
C21_TestCopiesAgree ==
    (pc = "compared" /\ impl = "test") =>
        \A i \in DOMAIN xout : xout[i].test = xout[i].shipped

====
